---- MODULE Spec2Model ----
(***************************************************************************)
(* N-body gravity simulation (webgpu-nbody): the GPU pipeline of main.js   *)
(* with the kernels of shaders/force-compute.wgsl, and the CPU variant     *)
(* SimpleNBodySimulation.                                                  *)
(*                                                                         *)
(* Numbers.  A float is a fixed-point integer in hundredths (Scale), a     *)
(* time step or damping factor is in thousandths (Milli), a squared        *)
(* distance is in Scale*Scale units.  Division truncates toward zero.      *)
(* NaN stands for every non-finite float (the result of a division by      *)
(* zero): it propagates through arithmetic and fails every comparison.     *)
(***************************************************************************)
EXTENDS Integers, Sequences, FiniteSets, TLC

Scale == 10 * 10
Milli == 10 * 10 * 10
NaN == 0 - 99999999
\* the largest magnitude a float of the model holds; larger results saturate
FloatBig == Scale * Scale * Scale

\* ------------------------------------------------------------- bounds
\* smallest and largest particle count the model lets the slider ask for
MinCount == 2
MaxCount == 3
\* frames rendered in one behaviour
MaxFrames == 2
\* setParticleCount calls in one behaviour
MaxResizes == 1
\* setter / reset calls in one behaviour
MaxTweaks == 1
\* invocations of a dispatch with an index >= MaxCount that the model follows
MaxBeyond == 1

\* ------------------------------------------------------- float layer
Fin(x) == x # NaN

Abs(x) == IF x < 0 THEN -x ELSE x

TruncDiv(a, b) == IF a >= 0 THEN a \div b ELSE -((-a) \div b)

Sat(x) == IF x > FloatBig THEN FloatBig ELSE IF x < -FloatBig THEN -FloatBig ELSE x

FAdd(a, b) == IF Fin(a) /\ Fin(b) THEN Sat(a + b) ELSE NaN

FSub(a, b) == IF Fin(a) /\ Fin(b) THEN Sat(a - b) ELSE NaN

\* a * b, both in hundredths
FMul(a, b) == IF Fin(a) /\ Fin(b) THEN Sat(TruncDiv(a * b, Scale)) ELSE NaN

\* a * p, p in thousandths (deltaTime, damping)
FMulMilli(a, p) == IF Fin(a) /\ Fin(p) THEN Sat(TruncDiv(a * p, Milli)) ELSE NaN

\* a / b, both in hundredths; x / 0 is not finite
FDiv(a, b) ==
    IF Fin(a) /\ Fin(b) /\ b # 0
    THEN Sat(IF b > 0 THEN TruncDiv(a * Scale, b) ELSE -TruncDiv(a * Scale, -b))
    ELSE NaN

\* a / d, a in Scale^3 units (a product of three floats), d a squared distance
FDivSquared(a, d) ==
    IF Fin(a) /\ Fin(d) /\ d # 0 THEN Sat(TruncDiv(a, d)) ELSE NaN

\* abs(x) > bound as the float comparison: false for NaN
AbsGreater(x, bound) == Fin(x) /\ Abs(x) > bound

\* sign(x) of WGSL and Math.sign
Sign(x) == IF ~Fin(x) THEN NaN ELSE IF x > 0 THEN 1 ELSE IF x < 0 THEN -1 ELSE 0

RECURSIVE ISqrt(_)
ISqrt(n) ==
    IF n < 2 THEN n
    ELSE LET r == 2 * ISqrt(n \div 4)
         IN  IF (r + 1) * (r + 1) <= n THEN r + 1 ELSE r

\* sqrt of a value in hundredths, in hundredths
FSqrt(x) == IF Fin(x) /\ x >= 0 THEN ISqrt(x * Scale) ELSE NaN

Axes == 1..3

VAdd(u, v) == [k \in Axes |-> FAdd(u[k], v[k])]

VSub(u, v) == [k \in Axes |-> FSub(u[k], v[k])]

VFin(v) == \A k \in Axes : Fin(v[k])

ZeroVec == <<0, 0, 0>>

NaNVec == <<NaN, NaN, NaN>>

\* dot(r, r) in Scale*Scale units
Dot(r) == IF VFin(r) THEN r[1] * r[1] + r[2] * r[2] + r[3] * r[3] ELSE NaN

\* ------------------------------------------------------ particle data
\* one record of the particle buffer (8 floats; the padding carries nothing)
Particle(pos, mass, vel) == [pos |-> pos, mass |-> mass, vel |-> vel]

\* what a freshly created (zero-filled) buffer holds, and what a robust
\* out-of-bounds load may return
ZeroParticle == Particle(ZeroVec, 0, ZeroVec)

\* Math.random() results, in hundredths; theta = 2*pi*u is drawn as the
\* quadrant q (theta = q*pi/2) so that its sine and cosine are exact
Draw(uR, q, uP, uM) == [uR |-> uR, q |-> q, uP |-> uP, uM |-> uM]

Draws == { Draw(0, 0, 50, 0), Draw(25, 2, 50, 50) }

\* the draws of one initializeParticles call; particle 0 is overwritten
DrawSeqs(n) == [2..n -> Draws]

CosQ(q) == CASE q = 0 -> Scale [] q = 1 -> 0 [] q = 2 -> -Scale [] OTHER -> 0

SinQ(q) == CASE q = 0 -> 0 [] q = 1 -> Scale [] q = 2 -> 0 [] OTHER -> -Scale

\* the loop body of initializeParticles for one particle (same in both variants)
RandomParticle(d, g) ==
    LET radius == FAdd(FMul(d.uR, 20 * Scale), 5 * Scale)
        cosPhi == 2 * d.uP - Scale
        sinPhi == ISqrt(Scale * Scale - cosPhi * cosPhi)
        mass   == FAdd(FMul(d.uM, Scale \div 2), Scale \div 2)
        speed  == FMul(FSqrt(FDiv(g * 100, radius)), (3 * Scale) \div 10)
    IN  Particle(<< FMul(FMul(radius, sinPhi), CosQ(d.q)),
                    FMul(FMul(radius, sinPhi), SinQ(d.q)),
                    FMul(radius, cosPhi) >>,
                 mass,
                 << FMul(-speed, SinQ(d.q)), FMul(speed, CosQ(d.q)), 0 >>)

\* NBodySimulation.initializeParticles: the Float32Array written to the buffer
GpuInitialStore(n, ds, g) ==
    [i \in 1..n |->
        IF i = 1 THEN Particle(ZeroVec, Scale, ZeroVec)
        ELSE RandomParticle(ds[i], g)]

\* SimpleNBodySimulation.initializeParticles: this.particles
CpuInitialParticles(n, ds, g) ==
    [i \in 1..n |->
        IF i = 1 THEN Particle(ZeroVec, 2 * Scale, ZeroVec)
        ELSE RandomParticle(ds[i], g)]

\* ------------------------------------------------- GPU buffer access
WorkgroupSize == 64

\* dispatchWorkgroups(Math.ceil(particleCount / 64)): invocations started
Dispatched(n) == ((n + WorkgroupSize - 1) \div WorkgroupSize) * WorkgroupSize

\* the u32 a shader reads where the CPU stored the number n as a float32:
\* the IEEE-754 bit pattern of n (sign 0, biased exponent, 23-bit mantissa)
RECURSIVE Log2Floor(_)
Log2Floor(n) == IF n < 2 THEN 0 ELSE 1 + Log2Floor(n \div 2)

Float32Bits(n) ==
    IF n = 0 THEN 0
    ELSE LET e == Log2Floor(n)
         IN  (127 + e) * (2 ^ 23) + (n - 2 ^ e) * (2 ^ (23 - e))

\* elements of array<vec3<f32>> (stride 16 bytes) in a buffer of
\* particleCount * 3 * 4 bytes
ForceSlots(n) == (n * 3 * 4) \div 16

\* a load from a storage array at index i (0-based).  Out of bounds, the
\* load returns zero or the element at the clamped index, as the device does.
Load(arr, i, zero, robust) ==
    IF i < Len(arr) THEN arr[i + 1]
    ELSE IF robust = "clamp" /\ Len(arr) > 0 THEN arr[Len(arr)]
    ELSE zero

\* a store to a storage array at index i.  Out of bounds, the store is
\* dropped or lands on the element at the clamped index.
Store(arr, i, v, robust) ==
    IF i < Len(arr) THEN [arr EXCEPT ![i + 1] = v]
    ELSE IF robust = "clamp" /\ Len(arr) > 0 THEN [arr EXCEPT ![Len(arr)] = v]
    ELSE arr

\* ------------------------------------------------------- force kernel
\* one iteration of the loop of computeForces: what `other` adds to totalForce.
\* The softened `distance` is computed and never used.
GpuDivisor(p, other) == Dot(VSub(other.pos, p.pos))

GpuNormDivisor(p, other) ==
    LET d == Dot(VSub(other.pos, p.pos)) IN IF Fin(d) THEN ISqrt(d) ELSE NaN

GpuPairForce(p, other, g) ==
    LET r               == VSub(other.pos, p.pos)
        distanceSquared == Dot(r)
        epsilon         == Scale \div 100
        distance        == IF Fin(distanceSquared)
                           THEN ISqrt(distanceSquared + epsilon * epsilon) ELSE NaN
        forceMagnitude  == FDivSquared(g * p.mass * other.mass, GpuDivisor(p, other))
        len             == GpuNormDivisor(p, other)
        forceDirection  == [k \in Axes |-> FDiv(r[k], len)]
    IN  [k \in Axes |-> FMul(forceMagnitude, forceDirection[k])]

\* the same term added `times` times
Repeated(c, times) ==
    [k \in Axes |->
        IF times = 0 THEN 0
        ELSE IF ~Fin(c[k]) THEN NaN
        ELSE IF Abs(c[k]) > FloatBig \div times THEN Sign(c[k]) * FloatBig
        ELSE c[k] * times]

RECURSIVE GpuForceSum(_, _, _, _, _, _)
GpuForceSum(store, p, index, g, i, upto) ==
    IF i >= upto THEN ZeroVec
    ELSE IF i = index THEN GpuForceSum(store, p, index, g, i + 1, upto)
    ELSE VAdd(GpuPairForce(p, store[i + 1], g),
              GpuForceSum(store, p, index, g, i + 1, upto))

\* totalForce of computeForces for invocation `index`, past its guard, when
\* params.particleCount reads as `count`: the iterations inside the buffer one
\* by one, then the count - Len(store) iterations that load out of bounds
GpuTotalForce(store, index, count, g, robust) ==
    LET p      == Load(store, index, ZeroParticle, robust)
        inside == IF count < Len(store) THEN count ELSE Len(store)
        beyond == count - inside - (IF index >= inside /\ index < count THEN 1 ELSE 0)
        oob    == Load(store, Len(store), ZeroParticle, robust)
    IN  VAdd(GpuForceSum(store, p, index, g, 0, inside),
             IF beyond > 0 THEN Repeated(GpuPairForce(p, oob, g), beyond) ELSE ZeroVec)

\* ------------------------------------------------- integration kernel
BoundarySize == 50 * Scale

Restitution == (8 * Scale) \div 10

\* a boundary test that reverses the velocity without the restitution factor
GpuBounceNoRestitution(x, v) ==
    IF AbsGreater(x, BoundarySize)
    THEN << Sign(x) * BoundarySize, FMul(v, -Scale) >>
    ELSE << x, v >>

\* the boundary test of one axis: position and velocity component after it
GpuBounce(x, v) ==
    IF AbsGreater(x, BoundarySize)
    THEN << Sign(x) * BoundarySize, FMul(v, -Restitution) >>
    ELSE << x, v >>

\* an integration that moves the particle with the velocity it had before
\* the step (explicit Euler)
GpuIntegrateOldVelocity(particle, force, dt, damping) ==
    LET acceleration == [k \in Axes |-> FDiv(force[k], particle.mass)]
        v1 == [k \in Axes |-> FAdd(particle.vel[k], FMulMilli(acceleration[k], dt))]
        v2 == [k \in Axes |-> FMulMilli(v1[k], damping)]
        x1 == [k \in Axes |-> FAdd(particle.pos[k], FMulMilli(particle.vel[k], dt))]
    IN  Particle([k \in Axes |-> GpuBounce(x1[k], v2[k])[1]],
                 particle.mass,
                 [k \in Axes |-> GpuBounce(x1[k], v2[k])[2]])

\* integrateParticles past its guard: the record stored back for `particle`
GpuIntegrate(particle, force, dt, damping) ==
    LET acceleration == [k \in Axes |-> FDiv(force[k], particle.mass)]
        v1 == [k \in Axes |-> FAdd(particle.vel[k], FMulMilli(acceleration[k], dt))]
        v2 == [k \in Axes |-> FMulMilli(v1[k], damping)]
        x1 == [k \in Axes |-> FAdd(particle.pos[k], FMulMilli(v2[k], dt))]
    IN  Particle([k \in Axes |-> GpuBounce(x1[k], v2[k])[1]],
                 particle.mass,
                 [k \in Axes |-> GpuBounce(x1[k], v2[k])[2]])

\* ------------------------------------------------ CPU physics step
\* a * b / c as JavaScript evaluates force * dx / distance
FMulDiv(a, b, c) ==
    IF Fin(a) /\ Fin(b) /\ Fin(c) /\ c # 0 THEN Sat(TruncDiv(a * b, c)) ELSE NaN

\* distanceSquared of updatePhysics: the literal 0.01 is added to the square
CpuDivisor(p, other) ==
    LET d == Dot(VSub(other.pos, p.pos))
    IN  IF Fin(d) THEN d + (Scale * Scale) \div 100 ELSE NaN

CpuNormDivisor(p, other) ==
    LET d == CpuDivisor(p, other) IN IF Fin(d) THEN ISqrt(d) ELSE NaN

\* what particle j adds to forces[i] in the inner loop of updatePhysics
CpuPairForce(p, other, g) ==
    LET r        == VSub(other.pos, p.pos)
        force    == FDivSquared(g * p.mass * other.mass, CpuDivisor(p, other))
        distance == CpuNormDivisor(p, other)
    IN  [k \in Axes |-> FMulDiv(force, r[k], distance)]

RECURSIVE CpuForceSum(_, _, _, _, _)
CpuForceSum(ps, i, g, j, n) ==
    IF j >= n THEN ZeroVec
    ELSE IF j = i THEN CpuForceSum(ps, i, g, j + 1, n)
    ELSE VAdd(CpuPairForce(ps[i + 1], ps[j + 1], g), CpuForceSum(ps, i, g, j + 1, n))

\* forces[i] after the inner loop over j < particleCount
CpuTotalForce(ps, i, n, g) == CpuForceSum(ps, i, g, 0, n)

\* the boundary conditions of updatePhysics for one axis
CpuBounce(x, v) ==
    IF AbsGreater(x, BoundarySize)
    THEN << Sign(x) * BoundarySize, FMul(v, -Restitution) >>
    ELSE << x, v >>

\* the integration loop body of updatePhysics for one particle
CpuIntegrate(particle, force, dt, damp) ==
    LET v1 == [k \in Axes |->
                 FAdd(particle.vel[k], FMulMilli(FDiv(force[k], particle.mass), dt))]
        v2 == [k \in Axes |-> FMulMilli(v1[k], damp)]
        x1 == [k \in Axes |-> FAdd(particle.pos[k], FMulMilli(v2[k], dt))]
    IN  Particle([k \in Axes |-> CpuBounce(x1[k], v2[k])[1]],
                 particle.mass,
                 [k \in Axes |-> CpuBounce(x1[k], v2[k])[2]])

\* 0.016 * timeScale, in thousandths of a second
DeltaTime(scale) == TruncDiv(16 * scale, Scale)

\* --------------------------------------------------- camera controller
\* distances in hundredths (Scale), rotation matrix entries and the sines
\* and cosines in ten-thousandths; pointer coordinates in pixels
RotScale == Scale * Scale

RMul(a, b) == TruncDiv(a * b, RotScale)

\* a / b for a >= 0 rounded to the nearest integer, a tie to the even one, as
\* a floating-point operation rounds its result
RoundDiv(a, b) ==
    LET q == a \div b
        r == a % b
    IN  IF 2 * r > b THEN q + 1 ELSE IF 2 * r = b THEN q + (q % 2) ELSE q

MinDistance == 10 * Scale

MaxDistance == 500 * Scale

StartDistance == 100 * Scale

\* zoomSpeed = 0.1: one part in ZoomDen
ZoomDen == 10

\* smoothing = 0.1: one part in SmoothDen
SmoothDen == 10

\* the identity matrix, row by row: rotMatrix[i] of the code is Rot[i + 1]
Identity == << RotScale, 0, 0, 0, RotScale, 0, 0, 0, RotScale >>

\* pointer coordinates that events carry
Coords == { 0, 100 }

\* Math.cos and Math.sin of an angle of a hundredths of a radian
\* (rotationSpeed = 0.01 radians per pixel), for the pixel deltas that occur
CosTable == (0 :> RotScale) @@ (100 :> 5403)

SinTable == (0 :> 0) @@ (100 :> 8415)

Cos(a) == CosTable[Abs(a)]

Sin(a) == IF a < 0 THEN -SinTable[-a] ELSE SinTable[a]

multiply3x3(a, b) ==
    << RMul(a[1], b[1]) + RMul(a[2], b[4]) + RMul(a[3], b[7]),
       RMul(a[1], b[2]) + RMul(a[2], b[5]) + RMul(a[3], b[8]),
       RMul(a[1], b[3]) + RMul(a[2], b[6]) + RMul(a[3], b[9]),
       RMul(a[4], b[1]) + RMul(a[5], b[4]) + RMul(a[6], b[7]),
       RMul(a[4], b[2]) + RMul(a[5], b[5]) + RMul(a[6], b[8]),
       RMul(a[4], b[3]) + RMul(a[5], b[6]) + RMul(a[6], b[9]),
       RMul(a[7], b[1]) + RMul(a[8], b[4]) + RMul(a[9], b[7]),
       RMul(a[7], b[2]) + RMul(a[8], b[5]) + RMul(a[9], b[8]),
       RMul(a[7], b[3]) + RMul(a[8], b[6]) + RMul(a[9], b[9]) >>

\* Rodrigues' matrix of the axis and angle, applied from the left
rotateAroundAxis(rot, axisX, axisY, axisZ, angle) ==
    LET cos == Cos(angle)
        sin == Sin(angle)
        oneMinusCos == RotScale - cos
    IN  multiply3x3(
          << cos + RMul(RMul(axisX, axisX), oneMinusCos),
             RMul(RMul(axisX, axisY), oneMinusCos) - RMul(axisZ, sin),
             RMul(RMul(axisX, axisZ), oneMinusCos) + RMul(axisY, sin),
             RMul(RMul(axisY, axisX), oneMinusCos) + RMul(axisZ, sin),
             cos + RMul(RMul(axisY, axisY), oneMinusCos),
             RMul(RMul(axisY, axisZ), oneMinusCos) - RMul(axisX, sin),
             RMul(RMul(axisZ, axisX), oneMinusCos) - RMul(axisY, sin),
             RMul(RMul(axisZ, axisY), oneMinusCos) + RMul(axisX, sin),
             cos + RMul(RMul(axisZ, axisZ), oneMinusCos) >>,
          rot)

\* a yaw around the second row of the matrix instead of its second column
rotateAroundCameraUpRow(rot, angle) ==
    rotateAroundAxis(rot, rot[4], rot[5], rot[6], angle)

rotateAroundCameraUp(rot, angle) ==
    rotateAroundAxis(rot, rot[2], rot[5], rot[8], angle)

rotateAroundCameraRight(rot, angle) ==
    rotateAroundAxis(rot, rot[1], rot[4], rot[7], angle)

\* camera.position and camera.up are set from the matrix and the distance
updateCameraPosition(c) ==
    [c EXCEPT !.position = << RMul(c.rotMatrix[3], c.distance),
                              RMul(c.rotMatrix[6], c.distance),
                              RMul(c.rotMatrix[9], c.distance) >>,
              !.up = << c.rotMatrix[2], c.rotMatrix[5], c.rotMatrix[8] >>]

\* new CameraController(camera, canvas)
NewCameraController ==
    updateCameraPosition(
        [isMouseDown |-> FALSE, lastMouseX |-> 0, lastMouseY |-> 0,
         distance |-> StartDistance, targetDistance |-> StartDistance,
         rotMatrix |-> Identity, position |-> << 0, 0, 0 >>, up |-> << 0, 0, 0 >>,
         cursor |-> ""])

\* this.cameraController = null
NoCamera == [isMouseDown |-> FALSE]

\* the two rotations of a move by (deltaX, deltaY) pixels; a delta within
\* 0.001 of zero does not rotate
Dragged(rot, deltaX, deltaY) ==
    LET yawed == IF Abs(deltaX) > 0 THEN rotateAroundCameraUp(rot, -deltaX) ELSE rot
    IN  IF Abs(deltaY) > 0 THEN rotateAroundCameraRight(yawed, -deltaY) ELSE yawed

onMouseDown(c, x, y) ==
    [c EXCEPT !.isMouseDown = TRUE, !.lastMouseX = x, !.lastMouseY = y,
              !.cursor = "grabbing"]

\* a move handler without the test of the flag
onMouseMoveUnguarded(c, x, y) ==
    updateCameraPosition(
        [c EXCEPT !.rotMatrix = Dragged(c.rotMatrix, x - c.lastMouseX, y - c.lastMouseY),
                  !.lastMouseX = x, !.lastMouseY = y])

onMouseMove(c, x, y) ==
    IF ~c.isMouseDown THEN c
    ELSE updateCameraPosition(
           [c EXCEPT !.rotMatrix = Dragged(c.rotMatrix, x - c.lastMouseX,
                                           y - c.lastMouseY),
                     !.lastMouseX = x, !.lastMouseY = y])

onMouseUp(c) == [c EXCEPT !.isMouseDown = FALSE, !.cursor = "grab"]

\* a wheel handler without the clamp
onWheelUnclamped(c, deltaY) ==
    [c EXCEPT !.targetDistance =
                  IF deltaY > 0
                  THEN RoundDiv(c.targetDistance * (ZoomDen + 1), ZoomDen)
                  ELSE RoundDiv(c.targetDistance * (ZoomDen - 1), ZoomDen)]

\* a wheel handler that moves the distance at once
onWheelImmediate(c, deltaY) ==
    LET zoomed == IF deltaY > 0
                  THEN RoundDiv(c.targetDistance * (ZoomDen + 1), ZoomDen)
                  ELSE RoundDiv(c.targetDistance * (ZoomDen - 1), ZoomDen)
    IN  [c EXCEPT !.targetDistance = zoomed, !.distance = zoomed]

\* e.deltaY > 0 zooms out, any other deltaY zooms in
onWheel(c, deltaY) ==
    LET zoomed == IF deltaY > 0
                  THEN RoundDiv(c.targetDistance * (ZoomDen + 1), ZoomDen)
                  ELSE RoundDiv(c.targetDistance * (ZoomDen - 1), ZoomDen)
    IN  [c EXCEPT !.targetDistance =
                      IF zoomed > MaxDistance THEN MaxDistance
                      ELSE IF zoomed < MinDistance THEN MinDistance ELSE zoomed]

\* touches: the sequence of the touch points of the event
onTouchStart(c, touches) ==
    IF Len(touches) = 1
    THEN [c EXCEPT !.isMouseDown = TRUE, !.lastMouseX = touches[1][1],
                   !.lastMouseY = touches[1][2]]
    ELSE c

onTouchMove(c, touches) ==
    IF Len(touches) = 1 /\ c.isMouseDown
    THEN updateCameraPosition(
           [c EXCEPT !.rotMatrix = Dragged(c.rotMatrix, touches[1][1] - c.lastMouseX,
                                           touches[1][2] - c.lastMouseY),
                     !.lastMouseX = touches[1][1], !.lastMouseY = touches[1][2]])
    ELSE c

onTouchEnd(c) == [c EXCEPT !.isMouseDown = FALSE]

\* a step that never stops short of the target
updateExact(c) ==
    updateCameraPosition(
        [c EXCEPT !.distance =
                      IF Abs(c.targetDistance - c.distance) < SmoothDen
                      THEN c.targetDistance
                      ELSE RoundDiv((SmoothDen - 1) * c.distance + c.targetDistance,
                                    SmoothDen)])

\* update(): distance + (targetDistance - distance) * smoothing, the sum
\* rounded to the resolution of the distance
update(c) ==
    updateCameraPosition(
        [c EXCEPT !.distance =
                      RoundDiv((SmoothDen - 1) * c.distance + c.targetDistance,
                               SmoothDen)])

\* a reset that leaves the orientation as it is
resetDistances(c) ==
    updateCameraPosition(
        [c EXCEPT !.distance = StartDistance, !.targetDistance = StartDistance])

reset(c) ==
    updateCameraPosition(
        [c EXCEPT !.distance = StartDistance, !.targetDistance = StartDistance,
                  !.rotMatrix = Identity])

\* render(): if (this.cameraController) this.cameraController.update()
RenderCamera(c) == IF c = NoCamera THEN c ELSE update(c)

\* no pointer or wheel event delivered yet
NoInput == [zooms |-> 0, moves |-> 0]

\* --------------------------------------------------------------- state
VARIABLES
    app,              \* the App object and the page: start-up, last resize request
    camera,           \* this.cameraController, with the camera and the cursor it sets
    input,            \* zoom runs and rotating moves delivered so far
    variant,          \* "gpu": NBodySimulation, "cpu": SimpleNBodySimulation
    robust,           \* what the device does with an out-of-bounds access
    particleCount,    \* this.particleCount
    gravityStrength,  \* this.gravityStrength
    timeScale,        \* this.timeScale
    damping,          \* this.damping (thousandths)
    particles,        \* this.particles of the CPU variant
    forces,           \* the local array `forces` of updatePhysics
    bufs,             \* every GPU buffer set created so far, by creation number
    cur,              \* the buffer set this.particleBuffer ... refer to
    bgCompute,        \* the buffer set forceBindGroup / integrateBindGroup hold
    bgRender,         \* the buffer set renderBindGroup holds
    chains,           \* pending continuations of setParticleCount calls
    pc,               \* the stage of the frame in flight, "idle" between frames
    done,             \* invocations of the running dispatch that have finished
    loop,             \* the loop index i of the running loop of updatePhysics
    frame,            \* frames rendered
    resizes,          \* setParticleCount calls made
    tweaks,           \* setter and reset calls made
    trace,            \* the stages started so far, in order
    last              \* what the last kernel invocation or loop iteration did

vars == << app, camera, input, variant, robust, particleCount, gravityStrength, timeScale, damping,
           particles, forces, bufs, cur, bgCompute, bgRender, chains, pc, done,
           loop, frame, resizes, tweaks, trace, last >>

Counts == MinCount..MaxCount

\* App and page: stage is the position of App.init, loading / error / controls
\* the visibility of the page elements, handlers whether setupControls has
\* run, loop whether animate has been called, attempts the calls of
\* simulation.init; requested is the count of the last setParticleCount call
\* and reported whether that call threw or returned an error
AppState(stage, gpu, adapter, loading, error, controls, handlers, looping, attempts) ==
    [stage |-> stage, gpu |-> gpu, adapter |-> adapter, loading |-> loading,
     error |-> error, controls |-> controls, handlers |-> handlers, loop |-> looping,
     attempts |-> attempts, requested |-> 0, reported |-> FALSE]

\* App.init has completed on a platform with WebGPU
AppRunning == AppState("running", TRUE, TRUE, FALSE, FALSE, TRUE, TRUE, TRUE, 1)

GravityChoices == { Scale, 5 * Scale }

TimeScaleChoices == { Scale, 10 * Scale }

DampingChoices == { 999, Milli, Milli \div 2 }

\* ids of the invocations of a dispatch that the model follows
Tracked == 0..(MaxCount + MaxBeyond - 1)

\* ------------------------------------------------------ uniform record
\* a 4-byte word of the uniform buffer: the field it was written for, the
\* word's place in that field, and the values it was computed from
Word(field, k, of) == [field |-> field, k |-> k, of |-> of]

ZeroWord == Word("", 0, << >>)

\* the camera position and up vector that updateUniforms hands to mat4.lookAt
Eye(c) == IF c = NoCamera THEN << 0, 0, StartDistance >> ELSE c.position

Up(c) == IF c = NoCamera THEN << 0, RotScale, 0 >> ELSE c.up

\* the 16 floats of a matrix computed from the camera by lookAt (and
\* perspective, whose arguments never change)
MatrixWords(field, c) == [k \in 1..16 |-> Word(field, k - 1, Eye(c) \o Up(c))]

PositionWords(c) == [k \in 1..3 |-> Word("cameraPosition", k - 1, << Eye(c)[k] >>)]

\* a record whose matrix is built with the up vector of the constructor
GpuUniformDataStaleUp(c, time) ==
    [k \in 1..16 |-> Word("viewProjectionMatrix", k - 1, Eye(c) \o << 0, RotScale, 0 >>)]
        \o PositionWords(c) \o << Word("time", 0, << time >>) >>

\* uniformData of NBodySimulation.updateUniforms: Float32Array(20) with the
\* view-projection matrix at 0, the camera position at 16 and the time at 19
GpuUniformData(c, time) ==
    MatrixWords("viewProjectionMatrix", c) \o PositionWords(c)
        \o << Word("time", 0, << time >>) >>

\* uniformData of SimpleNBodySimulation.updateUniforms: Float32Array(36) with
\* the view-projection matrix at 0, the view matrix at 16, the camera
\* position at 32 and the time at 35
CpuUniformData(c, time) ==
    MatrixWords("viewProjectionMatrix", c) \o MatrixWords("viewMatrix", c)
        \o PositionWords(c) \o << Word("time", 0, << time >>) >>

\* struct Uniforms of particle-vertex-quad.wgsl: the members in declaration
\* order with the alignment and the size, in bytes, of their types
UniformFields ==
    << [name |-> "viewProjectionMatrix", align |-> 16, size |-> 64],
       [name |-> "viewMatrix",           align |-> 16, size |-> 64],
       [name |-> "cameraPosition",       align |-> 16, size |-> 12],
       [name |-> "time",                 align |-> 4,  size |-> 4] >>

RoundUp(k, n) == ((n + k - 1) \div k) * k

\* byte offset of the i-th member: the end of the member before it, rounded
\* up to the member's alignment
RECURSIVE FieldOffset(_)
FieldOffset(i) ==
    IF i = 1 THEN 0
    ELSE RoundUp(UniformFields[i].align,
                 FieldOffset(i - 1) + UniformFields[i - 1].size)

\* byte size of the structure: the end of the last member, rounded up to the
\* largest alignment
UniformsSize ==
    RoundUp(16, FieldOffset(Len(UniformFields))
                   + UniformFields[Len(UniformFields)].size)

\* the member that the shader reads from the 4-byte word w of the buffer, and
\* the word's place in that member ("" for padding)
ShaderWord(w) ==
    LET hit == { i \in 1..Len(UniformFields) :
                    /\ FieldOffset(i) <= 4 * w
                    /\ 4 * w < FieldOffset(i) + UniformFields[i].size }
    IN  IF hit = {} THEN [field |-> "", k |-> 0]
        ELSE LET i == CHOOSE i \in hit : TRUE
             IN  [field |-> UniformFields[i].name,
                  k |-> w - FieldOffset(i) \div 4]

\* the uniform buffer as createBuffer leaves it: size bytes of zeros
ZeroUniforms(size) == [k \in 1..(size \div 4) |-> ZeroWord]

GpuUniformSize == 80

CpuUniformSize == 144

ZeroParams == [count |-> 0, dt |-> 0, g |-> 0, damping |-> 0]

NoBuffers == [store |-> << >>, forces |-> << >>, params |-> ZeroParams, uniforms |-> << >>]

\* initResources of the GPU variant: zero-filled buffers for n particles
GpuNewBuffers(n) ==
    [store  |-> [i \in 1..n |-> ZeroParticle],
     forces |-> [i \in 1..ForceSlots(n) |-> ZeroVec],
     params |-> ZeroParams,
     uniforms |-> ZeroUniforms(GpuUniformSize)]

NoInvocation == [kind |-> "none", index |-> 0, passed |-> FALSE, wrote |-> -1, mass |-> 0]

Invocation(kind, index, passed, wrote, mass) ==
    [kind |-> kind, index |-> index, passed |-> passed, wrote |-> wrote, mass |-> mass]

\* the element an access at index i touches, -1 when it touches none
Touched(arr, i) ==
    IF i < Len(arr) THEN i
    ELSE IF robust = "clamp" /\ Len(arr) > 0 THEN Len(arr) - 1
    ELSE -1

\* ------------------------------------------------- GPU variant: frames
\* paramData of updateUniforms as the kernels read it: the first field is
\* stored as a float32 and declared u32 in SimParams
GpuParamData(n, scale, g, damp) ==
    [count |-> Float32Bits(n), dt |-> DeltaTime(scale), g |-> g, damping |-> damp]

\* computeForces for one invocation: the force buffer afterwards
GpuComputeForces(b, index) ==
    IF index >= b.params.count THEN b.forces
    ELSE Store(b.forces, index,
               GpuTotalForce(b.store, index, b.params.count, b.params.g, robust),
               robust)

\* an integration kernel that stores its record one element too far
GpuIntegrateParticlesOffByOne(b, index) ==
    IF index >= b.params.count THEN b.store
    ELSE Store(b.store, index + 1,
               GpuIntegrate(Load(b.store, index, ZeroParticle, robust),
                            Load(b.forces, index, ZeroVec, robust),
                            b.params.dt, b.params.damping),
               robust)

\* integrateParticles for one invocation: the particle buffer afterwards
GpuIntegrateParticles(b, index) ==
    IF index >= b.params.count THEN b.store
    ELSE Store(b.store, index,
               GpuIntegrate(Load(b.store, index, ZeroParticle, robust),
                            Load(b.forces, index, ZeroVec, robust),
                            b.params.dt, b.params.damping),
               robust)

\* the invocation ids that may run next in the dispatch in flight
Runnable(index) ==
    index < Dispatched(particleCount) /\ index \in Tracked /\ index \notin done

\* all invocations of the dispatch in flight have finished
PassComplete == done = { i \in Tracked : i < Dispatched(particleCount) }

\* NBodySimulation.render(): cameraController.update(), updateUniforms(time),
\* then the command buffer with the two compute passes and the render pass is
\* submitted
GpuRender ==
    /\ bufs' = [bufs EXCEPT ![cur].uniforms =
                    GpuUniformData(RenderCamera(camera), frame),
                             ![cur].params =
                    GpuParamData(particleCount, timeScale, gravityStrength, damping)]
    /\ pc' = "force" /\ done' = {}
    /\ trace' = trace \o << "params", "force" >>
    /\ last' = NoInvocation
    /\ camera' = RenderCamera(camera)
    /\ UNCHANGED << input, variant, robust, particleCount, gravityStrength, timeScale,
                    damping, particles, forces, cur, bgCompute, bgRender, chains,
                    loop, frame, resizes, tweaks >>

\* App.animate, called back by requestAnimationFrame
GpuFrameStart ==
    /\ variant = "gpu" /\ pc = "idle" /\ app.loop /\ frame < MaxFrames
    /\ GpuRender
    /\ UNCHANGED app

GpuForceInvoke(index) ==
    /\ variant = "gpu" /\ pc = "force" /\ Runnable(index)
    /\ LET b == bufs[bgCompute]
           passed == index < b.params.count
       IN  /\ bufs' = [bufs EXCEPT ![bgCompute].forces = GpuComputeForces(b, index)]
           /\ last' = Invocation("force", index, passed,
                                 IF passed THEN Touched(b.forces, index) ELSE -1, 0)
    /\ done' = done \cup {index}
    /\ UNCHANGED << app, camera, input, variant, robust, particleCount, gravityStrength, timeScale,
                    damping, particles, forces, cur, bgCompute, bgRender, chains,
                    pc, loop, frame, resizes, tweaks, trace >>

\* an integration pass that starts without waiting for the force pass
GpuEndForcePassNoBarrier ==
    /\ variant = "gpu" /\ pc = "force"
    /\ pc' = "integrate" /\ done' = {}
    /\ trace' = Append(trace, "integrate")
    /\ last' = NoInvocation
    /\ UNCHANGED << app, camera, input, variant, robust, particleCount, gravityStrength, timeScale,
                    damping, particles, forces, bufs, cur, bgCompute, bgRender,
                    chains, loop, frame, resizes, tweaks >>

\* the integration pass starts when the force pass has ended
GpuEndForcePass ==
    /\ variant = "gpu" /\ pc = "force" /\ PassComplete
    /\ pc' = "integrate" /\ done' = {}
    /\ trace' = Append(trace, "integrate")
    /\ last' = NoInvocation
    /\ UNCHANGED << app, camera, input, variant, robust, particleCount, gravityStrength, timeScale,
                    damping, particles, forces, bufs, cur, bgCompute, bgRender,
                    chains, loop, frame, resizes, tweaks >>

GpuIntegrateInvoke(index) ==
    /\ variant = "gpu" /\ pc = "integrate" /\ Runnable(index)
    /\ LET b == bufs[bgCompute]
           passed == index < b.params.count
       IN  /\ bufs' = [bufs EXCEPT ![bgCompute].store = GpuIntegrateParticles(b, index)]
           /\ last' = Invocation("integrate", index, passed,
                                 IF passed THEN Touched(b.store, index) ELSE -1,
                                 Load(b.store, index, ZeroParticle, robust).mass)
    /\ done' = done \cup {index}
    /\ UNCHANGED << app, camera, input, variant, robust, particleCount, gravityStrength, timeScale,
                    damping, particles, forces, cur, bgCompute, bgRender, chains,
                    pc, loop, frame, resizes, tweaks, trace >>

\* the render pass starts when the integration pass has ended
GpuEndIntegratePass ==
    /\ variant = "gpu" /\ pc = "integrate" /\ PassComplete
    /\ pc' = "render" /\ done' = {}
    /\ trace' = Append(trace, "render")
    /\ last' = NoInvocation
    /\ UNCHANGED << app, camera, input, variant, robust, particleCount, gravityStrength, timeScale,
                    damping, particles, forces, bufs, cur, bgCompute, bgRender,
                    chains, loop, frame, resizes, tweaks >>

\* the render pass draws particleCount quads from the buffer of renderBindGroup
GpuDraw ==
    /\ variant = "gpu" /\ pc = "render"
    /\ pc' = "idle" /\ frame' = frame + 1
    /\ UNCHANGED << app, camera, input, variant, robust, particleCount, gravityStrength, timeScale,
                    damping, particles, forces, bufs, cur, bgCompute, bgRender,
                    chains, done, loop, resizes, tweaks, trace, last >>

\* ------------------------------------------------- GPU variant: events
\* setParticleCount: the count and initResources take effect at once (no await
\* is reached inside initResources); the rest of the chain runs later
GpuSetParticleCount(n) ==
    /\ variant = "gpu" /\ pc = "idle" /\ app.handlers /\ resizes < MaxResizes
    /\ particleCount' = n
    /\ bufs' = [bufs EXCEPT ![resizes + 1] = GpuNewBuffers(n)]
    /\ cur' = resizes + 1
    /\ chains' = Append(chains, "compute")
    /\ resizes' = resizes + 1
    /\ app' = [app EXCEPT !.requested = n, !.reported = FALSE]
    /\ UNCHANGED << camera, input, variant, robust, gravityStrength, timeScale, damping, particles,
                    forces, bgCompute, bgRender, pc, done, loop, frame,
                    tweaks, trace, last >>

\* initComputePipelines, once its shader fetches have resolved
GpuInitComputePipelines(k) ==
    /\ variant = "gpu" /\ pc = "idle" /\ chains[k] = "compute"
    /\ bgCompute' = cur
    /\ chains' = [chains EXCEPT ![k] = "render"]
    /\ UNCHANGED << app, camera, input, variant, robust, particleCount, gravityStrength, timeScale,
                    damping, particles, forces, bufs, cur, bgRender, pc, done, loop, frame, resizes, tweaks, trace, last >>

\* initRenderPipeline, once its shader fetches have resolved
GpuInitRenderPipeline(k) ==
    /\ variant = "gpu" /\ pc = "idle" /\ chains[k] = "render"
    /\ bgRender' = cur
    /\ chains' = [chains EXCEPT ![k] = "init"]
    /\ UNCHANGED << app, camera, input, variant, robust, particleCount, gravityStrength, timeScale,
                    damping, particles, forces, bufs, cur, bgCompute, pc, done, loop, frame, resizes, tweaks, trace, last >>

RemoveAt(seq, k) == [i \in 1..(Len(seq) - 1) |-> IF i < k THEN seq[i] ELSE seq[i + 1]]

\* the initializeParticles call that ends the chain of setParticleCount
GpuChainInitialize(k, ds) ==
    /\ variant = "gpu" /\ pc = "idle" /\ chains[k] = "init"
    /\ bufs' = [bufs EXCEPT ![cur].store =
                    GpuInitialStore(particleCount, ds, gravityStrength)]
    /\ chains' = RemoveAt(chains, k)
    /\ UNCHANGED << app, camera, input, variant, robust, particleCount, gravityStrength, timeScale,
                    damping, particles, forces, cur, bgCompute, bgRender, pc, done, loop, frame, resizes, tweaks, trace, last >>

GpuResetSimulation(ds) ==
    /\ variant = "gpu" /\ pc = "idle" /\ app.handlers /\ tweaks < MaxTweaks
    /\ bufs' = [bufs EXCEPT ![cur].store =
                    GpuInitialStore(particleCount, ds, gravityStrength)]
    /\ tweaks' = tweaks + 1
    /\ UNCHANGED << app, camera, input, variant, robust, particleCount, gravityStrength, timeScale,
                    damping, particles, forces, cur, bgCompute, bgRender, chains,
                    pc, done, loop, frame, resizes, trace, last >>

\* ------------------------------------------- setters of both variants
SetGravityStrength(strength) ==
    /\ pc = "idle" /\ app.handlers /\ tweaks < MaxTweaks /\ strength # gravityStrength
    /\ gravityStrength' = strength
    /\ tweaks' = tweaks + 1
    /\ UNCHANGED << app, camera, input, variant, robust, particleCount, timeScale, damping, particles,
                    forces, bufs, cur, bgCompute, bgRender, chains, pc, done, loop, frame, resizes, trace, last >>

SetTimeScale(scale) ==
    /\ pc = "idle" /\ app.handlers /\ tweaks < MaxTweaks /\ scale # timeScale
    /\ timeScale' = scale
    /\ tweaks' = tweaks + 1
    /\ UNCHANGED << app, camera, input, variant, robust, particleCount, gravityStrength, damping,
                    particles, forces, bufs, cur, bgCompute, bgRender, chains, pc,
                    done, loop, frame, resizes, trace, last >>

SetDamping(d) ==
    /\ pc = "idle" /\ app.handlers /\ tweaks < MaxTweaks /\ d # damping
    /\ damping' = d
    /\ tweaks' = tweaks + 1
    /\ UNCHANGED << app, camera, input, variant, robust, particleCount, gravityStrength, timeScale,
                    particles, forces, bufs, cur, bgCompute, bgRender, chains, pc,
                    done, loop, frame, resizes, trace, last >>

Setters ==
    \/ \E g \in GravityChoices : SetGravityStrength(g)
    \/ \E t \in TimeScaleChoices : SetTimeScale(t)
    \/ \E d \in DampingChoices : SetDamping(d)

\* ------------------------------------------------ GPU variant: the spec
\* NBodySimulation after init(): constructor defaults, buffers created and
\* bound, initializeParticles done, no frame rendered yet
InitGPU ==
    /\ app = AppRunning
    /\ camera = NewCameraController /\ input = NoInput
    /\ variant = "gpu"
    /\ robust \in { "zero", "clamp" }
    /\ particleCount = MaxCount
    /\ gravityStrength = Scale
    /\ timeScale = Scale
    /\ damping = 999
    /\ particles = << >> /\ forces = << >>
    /\ \E ds \in DrawSeqs(MaxCount) :
          bufs = [gen \in 0..MaxResizes |->
                    IF gen = 0
                    THEN [GpuNewBuffers(MaxCount) EXCEPT
                             !.store = GpuInitialStore(MaxCount, ds, Scale)]
                    ELSE NoBuffers]
    /\ cur = 0 /\ bgCompute = 0 /\ bgRender = 0
    /\ chains = << >>
    /\ pc = "idle" /\ done = {} /\ loop = 0
    /\ frame = 0 /\ resizes = 0 /\ tweaks = 0
    /\ trace = << >>
    /\ last = NoInvocation

NextGPU ==
    \/ GpuFrameStart
    \/ \E index \in Tracked : GpuForceInvoke(index)
    \/ GpuEndForcePass
    \/ \E index \in Tracked : GpuIntegrateInvoke(index)
    \/ GpuEndIntegratePass
    \/ GpuDraw
    \/ \E n \in Counts : GpuSetParticleCount(n)
    \/ \E k \in 1..Len(chains) : GpuInitComputePipelines(k)
    \/ \E k \in 1..Len(chains) : GpuInitRenderPipeline(k)
    \/ \E k \in 1..Len(chains) : \E ds \in DrawSeqs(MaxCount) :
          GpuChainInitialize(k, ds)
    \/ \E ds \in DrawSeqs(MaxCount) : GpuResetSimulation(ds)
    \/ Setters

SpecGPU == InitGPU /\ [][NextGPU]_vars

\* ------------------------------------------------ GPU variant: start-up
\* the page when the script starts: App constructed, nothing initialised;
\* navigator.gpu and the adapter are present or absent
InitApp ==
    /\ \E gpu \in BOOLEAN, adapter \in BOOLEAN :
          app = AppState("start", gpu, adapter, TRUE, FALSE, FALSE, FALSE, FALSE, 0)
    /\ camera = NoCamera /\ input = NoInput
    /\ variant = "gpu"
    /\ robust \in { "zero", "clamp" }
    /\ particleCount = MaxCount
    /\ gravityStrength = Scale
    /\ timeScale = Scale
    /\ damping = 999
    /\ particles = << >> /\ forces = << >>
    /\ bufs = [gen \in 0..MaxResizes |-> NoBuffers]
    /\ cur = 0 /\ bgCompute = 0 /\ bgRender = 0
    /\ chains = << >>
    /\ pc = "idle" /\ done = {} /\ loop = 0
    /\ frame = 0 /\ resizes = 0 /\ tweaks = 0
    /\ trace = << >>
    /\ last = NoInvocation

\* App.init up to its await: simulation.init() is called and runs up to its
\* first await, throwing at once when navigator.gpu is missing
AppInit ==
    /\ app.stage = "start"
    /\ app' = [app EXCEPT !.attempts = app.attempts + 1,
                          !.stage = IF app.gpu THEN "adapter" ELSE "rejected"]
    /\ UNCHANGED << camera, input, variant, robust, particleCount, gravityStrength, timeScale,
                    damping, particles, forces, bufs, cur, bgCompute, bgRender,
                    chains, pc, done, loop, frame, resizes, tweaks, trace, last >>

\* a start-up that goes on to requestDevice without testing the adapter
SimInitAdapterUnchecked ==
    /\ app.stage = "adapter"
    /\ app' = [app EXCEPT !.stage = "device"]
    /\ UNCHANGED << camera, input, variant, robust, particleCount, gravityStrength, timeScale,
                    damping, particles, forces, bufs, cur, bgCompute, bgRender,
                    chains, pc, done, loop, frame, resizes, tweaks, trace, last >>

\* NBodySimulation.init after requestAdapter has resolved
SimInitAdapter ==
    /\ app.stage = "adapter"
    /\ app' = [app EXCEPT !.stage = IF app.adapter THEN "device" ELSE "rejected"]
    /\ UNCHANGED << camera, input, variant, robust, particleCount, gravityStrength, timeScale,
                    damping, particles, forces, bufs, cur, bgCompute, bgRender,
                    chains, pc, done, loop, frame, resizes, tweaks, trace, last >>

\* the rest of NBodySimulation.init: device, context, initResources, the
\* pipelines and bind groups, initializeParticles
SimInitFinish(ds) ==
    /\ app.stage = "device"
    /\ app' = [app EXCEPT !.stage = "ready"]
    /\ bufs' = [bufs EXCEPT ![0] =
                   [GpuNewBuffers(particleCount) EXCEPT
                       !.store = GpuInitialStore(particleCount, ds, gravityStrength)]]
    /\ camera' = NewCameraController
    /\ UNCHANGED << input, variant, robust, particleCount, gravityStrength, timeScale,
                    damping, particles, forces, cur, bgCompute, bgRender, chains,
                    pc, done, loop, frame, resizes, tweaks, trace, last >>

\* App.init after simulation.init() has resolved: page elements switched,
\* setupControls, and animate with its first render call
AppInitContinue ==
    /\ app.stage = "ready"
    /\ app' = [app EXCEPT !.stage = "running", !.loading = FALSE,
                          !.controls = TRUE, !.handlers = TRUE, !.loop = TRUE]
    /\ GpuRender

\* the catch block of App.init
AppInitCatch ==
    /\ app.stage = "rejected"
    /\ app' = [app EXCEPT !.stage = "failed", !.loading = FALSE, !.error = TRUE]
    /\ UNCHANGED << camera, input, variant, robust, particleCount, gravityStrength, timeScale,
                    damping, particles, forces, bufs, cur, bgCompute, bgRender,
                    chains, pc, done, loop, frame, resizes, tweaks, trace, last >>

NextApp ==
    \/ AppInit
    \/ SimInitAdapter
    \/ \E ds \in DrawSeqs(MaxCount) : SimInitFinish(ds)
    \/ AppInitContinue
    \/ AppInitCatch
    \/ NextGPU

SpecApp == InitApp /\ [][NextApp]_vars

\* ------------------------------------------------- CPU variant: frames
\* updateParticleBuffer: the records written to this.particleBuffer
CpuParticleData(ps, n) == [i \in 1..n |-> ps[i]]

\* render(): cameraController.update(), then updatePhysics(0.016) is entered
\* and computes dt
CpuFrameStart ==
    /\ variant = "cpu" /\ pc = "idle" /\ app.loop /\ frame < MaxFrames
    /\ pc' = "force" /\ loop' = 0 /\ forces' = << >>
    /\ trace' = trace \o << "params", "force" >>
    /\ last' = NoInvocation
    /\ camera' = RenderCamera(camera)
    /\ UNCHANGED << app, input, variant, robust, particleCount, gravityStrength, timeScale,
                    damping, particles, bufs, cur, bgCompute, bgRender, chains,
                    done, frame, resizes, tweaks >>

\* one iteration of the outer force loop of updatePhysics
CpuForceStep ==
    /\ variant = "cpu" /\ pc = "force" /\ loop < particleCount
    /\ forces' = Append(forces,
                        CpuTotalForce(particles, loop, particleCount, gravityStrength))
    /\ loop' = loop + 1
    /\ last' = Invocation("force", loop, TRUE, loop, 0)
    /\ UNCHANGED << app, camera, input, variant, robust, particleCount, gravityStrength, timeScale,
                    damping, particles, bufs, cur, bgCompute, bgRender, chains, pc,
                    done, frame, resizes, tweaks, trace >>

\* the force loop has ended, the integration loop starts
CpuEndForceLoop ==
    /\ variant = "cpu" /\ pc = "force" /\ loop >= particleCount
    /\ pc' = "integrate" /\ loop' = 0
    /\ trace' = Append(trace, "integrate")
    /\ last' = NoInvocation
    /\ UNCHANGED << app, camera, input, variant, robust, particleCount, gravityStrength, timeScale,
                    damping, particles, forces, bufs, cur, bgCompute, bgRender,
                    chains, done, frame, resizes, tweaks >>

\* one iteration of the integration loop of updatePhysics
CpuIntegrateStep ==
    /\ variant = "cpu" /\ pc = "integrate" /\ loop < particleCount
    /\ particles' = [particles EXCEPT ![loop + 1] =
                        CpuIntegrate(particles[loop + 1], forces[loop + 1],
                                     DeltaTime(timeScale), damping)]
    /\ loop' = loop + 1
    /\ last' = Invocation("integrate", loop, TRUE, loop, particles[loop + 1].mass)
    /\ UNCHANGED << app, camera, input, variant, robust, particleCount, gravityStrength, timeScale,
                    damping, forces, bufs, cur, bgCompute, bgRender, chains, pc,
                    done, frame, resizes, tweaks, trace >>

\* updatePhysics returns; the upload and the render pass follow
CpuEndIntegrateLoop ==
    /\ variant = "cpu" /\ pc = "integrate" /\ loop >= particleCount
    /\ pc' = "render" /\ loop' = 0
    /\ trace' = Append(trace, "render")
    /\ last' = NoInvocation
    /\ UNCHANGED << app, camera, input, variant, robust, particleCount, gravityStrength, timeScale,
                    damping, particles, forces, bufs, cur, bgCompute, bgRender,
                    chains, done, frame, resizes, tweaks >>

\* updateParticleBuffer, updateUniforms and the render pass, which draws from
\* the buffer of renderBindGroup
CpuDraw ==
    /\ variant = "cpu" /\ pc = "render"
    /\ bufs' = [bufs EXCEPT ![cur].store = CpuParticleData(particles, particleCount),
                             ![cur].uniforms = CpuUniformData(camera, frame)]
    /\ pc' = "idle" /\ frame' = frame + 1 /\ forces' = << >>
    /\ UNCHANGED << app, camera, input, variant, robust, particleCount, gravityStrength, timeScale,
                    damping, particles, cur, bgCompute, bgRender, chains, done,
                    loop, resizes, tweaks, trace, last >>

\* ------------------------------------------------- CPU variant: events
CpuCap == 4000

\* Math.floor(Math.min(count, 4000)) for an integer count
CpuCappedCount(count) == IF count < CpuCap THEN count ELSE CpuCap

\* setParticleCount: count, initializeParticles and initResources (with its
\* updateParticleBuffer) take effect at once; initRenderPipeline runs later
CpuSetParticleCount(count, ds) ==
    /\ variant = "cpu" /\ pc = "idle" /\ app.handlers /\ resizes < MaxResizes
    /\ LET n  == CpuCappedCount(count)
           ps == CpuInitialParticles(n, ds, gravityStrength)
       IN  /\ particleCount' = n
           /\ particles' = ps
           /\ bufs' = [bufs EXCEPT ![resizes + 1] =
                           [store |-> CpuParticleData(ps, n), forces |-> << >>,
                            params |-> ZeroParams,
                            uniforms |-> ZeroUniforms(CpuUniformSize)]]
    /\ cur' = resizes + 1
    /\ chains' = Append(chains, "render")
    /\ resizes' = resizes + 1
    /\ app' = [app EXCEPT !.requested = count, !.reported = FALSE]
    /\ UNCHANGED << camera, input, variant, robust, gravityStrength, timeScale, damping, forces,
                    bgCompute, bgRender, pc, done, loop, frame, tweaks, trace, last >>

\* initRenderPipeline, once its shader fetches have resolved
CpuInitRenderPipeline(k) ==
    /\ variant = "cpu" /\ pc = "idle" /\ chains[k] = "render"
    /\ bgRender' = cur
    /\ chains' = RemoveAt(chains, k)
    /\ UNCHANGED << app, camera, input, variant, robust, particleCount, gravityStrength, timeScale,
                    damping, particles, forces, bufs, cur, bgCompute, pc, done,
                    loop, frame, resizes, tweaks, trace, last >>

CpuResetSimulation(ds) ==
    /\ variant = "cpu" /\ pc = "idle" /\ app.handlers /\ tweaks < MaxTweaks
    /\ particles' = CpuInitialParticles(particleCount, ds, gravityStrength)
    /\ tweaks' = tweaks + 1
    /\ UNCHANGED << app, camera, input, variant, robust, particleCount, gravityStrength, timeScale,
                    damping, forces, bufs, cur, bgCompute, bgRender, chains, pc,
                    done, loop, frame, resizes, trace, last >>

\* ------------------------------------------------ CPU variant: the spec
\* SimpleNBodySimulation after init()
InitCPU ==
    /\ app = AppRunning
    /\ camera = NewCameraController /\ input = NoInput
    /\ variant = "cpu"
    /\ robust = "zero"
    /\ particleCount = MaxCount
    /\ gravityStrength = Scale
    /\ timeScale = Scale
    /\ damping = 999
    /\ \E ds \in DrawSeqs(MaxCount) :
          /\ particles = CpuInitialParticles(MaxCount, ds, Scale)
          /\ bufs = [gen \in 0..MaxResizes |->
                       IF gen = 0
                       THEN [store |-> CpuParticleData(
                                          CpuInitialParticles(MaxCount, ds, Scale),
                                          MaxCount),
                             forces |-> << >>, params |-> ZeroParams,
                             uniforms |-> ZeroUniforms(CpuUniformSize)]
                       ELSE NoBuffers]
    /\ forces = << >>
    /\ cur = 0 /\ bgCompute = 0 /\ bgRender = 0
    /\ chains = << >>
    /\ pc = "idle" /\ done = {} /\ loop = 0
    /\ frame = 0 /\ resizes = 0 /\ tweaks = 0
    /\ trace = << >>
    /\ last = NoInvocation

NextCPU ==
    \/ CpuFrameStart
    \/ CpuForceStep
    \/ CpuEndForceLoop
    \/ CpuIntegrateStep
    \/ CpuEndIntegrateLoop
    \/ CpuDraw
    \/ \E n \in Counts : \E ds \in DrawSeqs(MaxCount) : CpuSetParticleCount(n, ds)
    \/ \E k \in 1..Len(chains) : CpuInitRenderPipeline(k)
    \/ \E ds \in DrawSeqs(MaxCount) : CpuResetSimulation(ds)
    \/ Setters

SpecCPU == InitCPU /\ [][NextCPU]_vars

\* ------------------------------------------------ both variants together
Init == InitGPU \/ InitCPU

Next == NextGPU \/ NextCPU

Spec == Init /\ [][Next]_vars

\* ------------------------------------------- one integration step alone
\* the integration of one particle from inputs drawn near the boundary:
\* particles holds the record before the step, forces its force, and
\* bufs[0].store the record after it
StepPositions == { 0, BoundarySize, -BoundarySize, BoundarySize - Scale }

StepVelocities == { 0, (125 * Scale) \div 2, -((125 * Scale) \div 2) }

StepForces == { ZeroVec, << 4 * Scale, -(4 * Scale), 0 >> }

StepMasses == { Scale, Scale \div 2 }

InitStep ==
    /\ app = AppRunning
    /\ camera = NewCameraController /\ input = NoInput
    /\ variant \in { "gpu", "cpu" }
    /\ robust = "zero"
    /\ particleCount = 1
    /\ gravityStrength = Scale
    /\ timeScale \in TimeScaleChoices
    /\ damping \in DampingChoices
    /\ \E pos \in [Axes -> StepPositions], vel \in [Axes -> StepVelocities],
          m \in StepMasses :
          particles = << Particle(pos, m, vel) >>
    /\ forces \in { << f >> : f \in StepForces }
    /\ bufs = [gen \in 0..MaxResizes |-> NoBuffers]
    /\ cur = 0 /\ bgCompute = 0 /\ bgRender = 0
    /\ chains = << >>
    /\ pc = "integrate" /\ done = {} /\ loop = 0
    /\ frame = 0 /\ resizes = 0 /\ tweaks = 0
    /\ trace = << >>
    /\ last = NoInvocation

\* integrateParticles applied to the drawn record
GpuStep ==
    /\ variant = "gpu" /\ pc = "integrate"
    /\ bufs' = [bufs EXCEPT ![0].store =
                   << GpuIntegrate(particles[1], forces[1],
                                   DeltaTime(timeScale), damping) >>]
    /\ pc' = "render"
    /\ last' = Invocation("integrate", 0, TRUE, 0, particles[1].mass)
    /\ UNCHANGED << app, camera, input, variant, robust, particleCount, gravityStrength, timeScale,
                    damping, particles, forces, cur, bgCompute, bgRender, chains,
                    done, loop, frame, resizes, tweaks, trace >>

\* the integration loop body of updatePhysics applied to the drawn record
CpuStep ==
    /\ variant = "cpu" /\ pc = "integrate"
    /\ bufs' = [bufs EXCEPT ![0].store =
                   << CpuIntegrate(particles[1], forces[1],
                                   DeltaTime(timeScale), damping) >>]
    /\ pc' = "render"
    /\ last' = Invocation("integrate", 0, TRUE, 0, particles[1].mass)
    /\ UNCHANGED << app, camera, input, variant, robust, particleCount, gravityStrength, timeScale,
                    damping, particles, forces, cur, bgCompute, bgRender, chains,
                    done, loop, frame, resizes, tweaks, trace >>

NextStep == GpuStep \/ CpuStep

SpecStep == InitStep /\ [][NextStep]_vars

\* ------------------------------------------- the count of a resize alone
\* setParticleCount applied to a requested count around the cap of the CPU
\* variant: what this.particleCount becomes and whether the caller is told.
\* The stores are left out: their size follows particleCount.
RequestSpread == 60

RequestCounts == (CpuCap - RequestSpread)..(CpuCap + RequestSpread)

InitResize ==
    /\ \E n \in RequestCounts : app = [AppRunning EXCEPT !.requested = n]
    /\ camera = NewCameraController /\ input = NoInput
    /\ variant \in { "gpu", "cpu" }
    /\ robust = "zero"
    /\ particleCount = MaxCount
    /\ gravityStrength = Scale /\ timeScale = Scale /\ damping = 999
    /\ particles = << >> /\ forces = << >>
    /\ bufs = [gen \in 0..MaxResizes |-> NoBuffers]
    /\ cur = 0 /\ bgCompute = 0 /\ bgRender = 0
    /\ chains = << >>
    /\ pc = "idle" /\ done = {} /\ loop = 0
    /\ frame = 0 /\ resizes = 0 /\ tweaks = 0
    /\ trace = << >>
    /\ last = NoInvocation

\* this.particleCount = Math.floor(count) of NBodySimulation.setParticleCount;
\* the call returns undefined and throws nothing
GpuResizeCount ==
    /\ variant = "gpu" /\ resizes = 0
    /\ particleCount' = app.requested
    /\ app' = [app EXCEPT !.reported = FALSE]
    /\ resizes' = 1
    /\ UNCHANGED << camera, input, variant, robust, gravityStrength, timeScale, damping, particles,
                    forces, bufs, cur, bgCompute, bgRender, chains, pc, done, loop,
                    frame, tweaks, trace, last >>

\* this.particleCount = Math.floor(Math.min(count, 4000)) of
\* SimpleNBodySimulation.setParticleCount; the call returns undefined and
\* throws nothing
CpuResizeCount ==
    /\ variant = "cpu" /\ resizes = 0
    /\ particleCount' = CpuCappedCount(app.requested)
    /\ app' = [app EXCEPT !.reported = FALSE]
    /\ resizes' = 1
    /\ UNCHANGED << camera, input, variant, robust, gravityStrength, timeScale, damping, particles,
                    forces, bufs, cur, bgCompute, bgRender, chains, pc, done, loop,
                    frame, tweaks, trace, last >>

NextResize == GpuResizeCount \/ CpuResizeCount

SpecResize == InitResize /\ [][NextResize]_vars

\* ------------------------------------------- the camera controller alone
\* zoom runs a behaviour may hold
MaxZooms == 1
\* moves that rotate a behaviour may hold
MaxMoves == 1
\* the wheel events of a long scroll
WheelNotches == 24

\* wheel events arrive singly or as the run of one scroll
WheelRuns == { 1, WheelNotches }

WheelDeltas == { -100, 0, 100 }

TouchPoints == Coords \X Coords

\* the touch lists of an event: one finger or two
TouchLists == { << p >> : p \in TouchPoints } \cup (TouchPoints \X TouchPoints)

\* the simulation as InitGPU leaves it, with the controller just constructed
InitCamera ==
    /\ InitGPU
    /\ robust = "zero"
    /\ bufs[0].store = GpuInitialStore(MaxCount, [i \in 2..MaxCount |-> Draw(0, 0, 50, 0)],
                                       Scale)

SimUnchanged ==
    UNCHANGED << app, variant, robust, particleCount, gravityStrength, timeScale,
                 damping, particles, forces, bufs, cur, bgCompute, bgRender, chains,
                 pc, done, loop, frame, resizes, tweaks, trace, last >>

\* whether the move event would rotate the camera
Rotates(c, x, y) == c.isMouseDown /\ (x # c.lastMouseX \/ y # c.lastMouseY)

MouseDown(x, y) ==
    /\ camera' = onMouseDown(camera, x, y)
    /\ UNCHANGED input /\ SimUnchanged

MouseMove(x, y) ==
    /\ Rotates(camera, x, y) => input.moves < MaxMoves
    /\ camera' = onMouseMove(camera, x, y)
    /\ input' = IF Rotates(camera, x, y)
                THEN [input EXCEPT !.moves = input.moves + 1] ELSE input
    /\ SimUnchanged

MouseUp ==
    /\ camera' = onMouseUp(camera)
    /\ UNCHANGED input /\ SimUnchanged

RECURSIVE Wheeled(_, _, _)
\* k wheel events with the same deltaY, one after the other
Wheeled(c, deltaY, k) == IF k = 0 THEN c ELSE Wheeled(onWheel(c, deltaY), deltaY, k - 1)

Wheel(deltaY, k) ==
    /\ input.zooms < MaxZooms
    /\ camera' = Wheeled(camera, deltaY, k)
    /\ input' = [input EXCEPT !.zooms = input.zooms + 1]
    /\ SimUnchanged

TouchStart(touches) ==
    /\ camera' = onTouchStart(camera, touches)
    /\ UNCHANGED input /\ SimUnchanged

TouchMove(touches) ==
    /\ (Len(touches) = 1 /\ Rotates(camera, touches[1][1], touches[1][2]))
          => input.moves < MaxMoves
    /\ camera' = onTouchMove(camera, touches)
    /\ input' = IF Len(touches) = 1 /\ Rotates(camera, touches[1][1], touches[1][2])
                THEN [input EXCEPT !.moves = input.moves + 1] ELSE input
    /\ SimUnchanged

TouchEnd ==
    /\ camera' = onTouchEnd(camera)
    /\ UNCHANGED input /\ SimUnchanged

\* the update() call at the head of render()
CameraFrame ==
    /\ camera' = RenderCamera(camera)
    /\ UNCHANGED input /\ SimUnchanged

CameraReset ==
    /\ camera' = reset(camera)
    /\ UNCHANGED input /\ SimUnchanged

NextCamera ==
    \/ \E x \in Coords, y \in Coords : MouseDown(x, y)
    \/ \E x \in Coords, y \in Coords : MouseMove(x, y)
    \/ MouseUp
    \/ \E deltaY \in WheelDeltas, k \in WheelRuns : Wheel(deltaY, k)
    \/ \E touches \in TouchLists : TouchStart(touches)
    \/ \E touches \in TouchLists : TouchMove(touches)
    \/ TouchEnd
    \/ CameraFrame
    \/ CameraReset

SpecCamera == InitCamera /\ [][NextCamera]_vars

\* render() runs once per animation frame for as long as the page lives
SpecCameraFair == SpecCamera /\ WF_vars(CameraFrame)

\* ------------------------------------- the controller under the frame loop
\* the mouse and wheel listeners of the canvas run between the steps of the
\* frames; nothing resizes or retunes the simulation
NextView ==
    \/ \E x \in Coords, y \in Coords : MouseDown(x, y)
    \/ \E x \in Coords, y \in Coords : MouseMove(x, y)
    \/ MouseUp
    \/ \E deltaY \in WheelDeltas, k \in WheelRuns : Wheel(deltaY, k)
    \/ GpuFrameStart
    \/ \E index \in Tracked : GpuForceInvoke(index)
    \/ GpuEndForcePass
    \/ \E index \in Tracked : GpuIntegrateInvoke(index)
    \/ GpuEndIntegratePass
    \/ GpuDraw

SpecView == InitCamera /\ [][NextView]_vars

\* ------------------------------------------- two mirrored particles
\* Two particles of equal mass whose positions and velocities are mirrored
\* about the origin, stepped by the frames of either variant.
PairOffsets == { Scale, 2 * Scale, 10 * Scale }

PairSpeeds == { 0, Scale }

PairMasses == { Scale, 2 * Scale }

PairGravity == { Scale, 10 * Scale, 100 * Scale }

Neg(v) == [k \in Axes |-> IF v[k] = NaN THEN NaN ELSE 0 - v[k]]

PairStore(p, s, m) ==
    << Particle(<< 0 - p, 0, 0 >>, m, << 0, s, 0 >>),
       Particle(<< p, 0, 0 >>, m, << 0, 0 - s, 0 >>) >>

InitPair ==
    /\ app = AppRunning
    /\ camera = NewCameraController /\ input = NoInput
    /\ variant \in { "gpu", "cpu" }
    /\ robust \in { "zero", "clamp" }
    /\ variant = "cpu" => robust = "zero"
    /\ particleCount = 2
    /\ gravityStrength \in PairGravity
    /\ timeScale = Scale
    /\ damping = Milli
    /\ \E p \in PairOffsets, s \in PairSpeeds, m \in PairMasses :
          /\ particles = IF variant = "cpu" THEN PairStore(p, s, m) ELSE << >>
          /\ bufs = [gen \in 0..MaxResizes |->
                       IF gen # 0 THEN NoBuffers
                       ELSE IF variant = "gpu"
                       THEN [GpuNewBuffers(2) EXCEPT !.store = PairStore(p, s, m)]
                       ELSE [store |-> CpuParticleData(PairStore(p, s, m), 2),
                             forces |-> << >>, params |-> ZeroParams,
                             uniforms |-> ZeroUniforms(CpuUniformSize)]]
    /\ forces = << >>
    /\ cur = 0 /\ bgCompute = 0 /\ bgRender = 0
    /\ chains = << >>
    /\ pc = "idle" /\ done = {} /\ loop = 0
    /\ frame = 0 /\ resizes = 0 /\ tweaks = 0
    /\ trace = << >>
    /\ last = NoInvocation

NextPair ==
    \/ GpuFrameStart
    \/ \E index \in Tracked : GpuForceInvoke(index)
    \/ GpuEndForcePass
    \/ \E index \in Tracked : GpuIntegrateInvoke(index)
    \/ GpuEndIntegratePass
    \/ GpuDraw
    \/ CpuFrameStart
    \/ CpuForceStep
    \/ CpuEndForceLoop
    \/ CpuIntegrateStep
    \/ CpuEndIntegrateLoop
    \/ CpuDraw

SpecPair == InitPair /\ [][NextPair]_vars

\* =============================================================== claims
\* the store the kernels of the frame in flight are bound to (GPU) or the
\* particle array of updatePhysics (CPU)
BoundStore == IF variant = "gpu" THEN bufs[bgCompute].store ELSE particles

\* the force array the integration of the frame in flight reads
BoundForces == IF variant = "gpu" THEN bufs[bgCompute].forces ELSE forces

\* ------------------------------------------------------------------ C1
StageOrder == << "params", "force", "integrate", "render" >>

\* a stage is left only when all its invocations (loop iterations) are done,
\* and a frame starts only when every earlier frame has been rendered
StageCompletes ==
    /\ (pc \in { "force", "integrate" } /\ pc' # pc) =>
          IF variant = "gpu" THEN PassComplete ELSE loop >= particleCount
    /\ (pc = "idle" /\ pc' # "idle") => Len(trace) = 4 * frame
    /\ (pc # "idle" /\ pc' = "idle") => (pc = "render" /\ frame' = frame + 1)

\* C1: within every frame the stages start in the order parameter write,
\* force computation, integration, render; a stage is complete before the
\* next one starts, and no stage of frame k+1 starts before the render stage
\* of frame k has been issued.
C1_StageOrder ==
    /\ [](\A i \in 1..Len(trace) : trace[i] = StageOrder[((i - 1) % 4) + 1])
    /\ [](pc # "idle" => (trace # << >> /\ trace[Len(trace)] = pc))
    /\ [][StageCompletes]_vars

\* two whole frames have run, of either variant
C1_Witness == frame = 2 /\ pc = "idle" /\ Len(trace) = 8

\* ------------------------------------------------------------------ C2
\* the force the force stage computes for particle i from the store as it is
\* before integration touches it
ComputedForce(i) ==
    IF variant = "gpu"
    THEN GpuTotalForce(bufs[bgCompute].store, i, bufs[bgCompute].params.count,
                       bufs[bgCompute].params.g, robust)
    ELSE CpuTotalForce(particles, i, particleCount, gravityStrength)

IntegrationNotStarted == IF variant = "gpu" THEN done = {} ELSE loop = 0

\* C2: no integration step runs before every force step of the frame has
\* written its slot, so the force that integration reads for particle i is
\* the one computed from the positions at the start of the frame; the render
\* stage starts after all integration steps.
C2_Barrier ==
    /\ []((pc = "integrate" /\ IntegrationNotStarted) =>
             \A i \in 0..(Len(BoundStore) - 1) :
                /\ i < Len(BoundForces)
                /\ Load(BoundForces, i, ZeroVec, robust) = ComputedForce(i))
    /\ [][(pc \in { "force", "integrate" } /\ pc' # pc) =>
             IF variant = "gpu" THEN PassComplete ELSE loop >= particleCount]_vars

\* ------------------------------------------------------------------ C3
\* C3: a change of the particle count takes effect as one step: whenever a
\* stage of a frame runs, the resize has re-created the stores, re-bound them
\* and re-initialised the particles, and the bound stores have the size of
\* the particle count.
C3_ResizeSequenced ==
    pc # "idle" =>
        /\ chains = << >>
        /\ bgRender = cur
        /\ Len(bufs[bgRender].store) = particleCount
        /\ variant = "gpu" =>
              (bgCompute = cur /\ Len(bufs[bgCompute].store) = particleCount)

\* ------------------------------------------------------------------ C4
\* C4: at every dispatch of the force or integration kernel the particle
\* count of the parameter block, read as an unsigned integer, equals the
\* number of particles in the store.
C4_ParamCount ==
    (variant = "gpu" /\ pc \in { "force", "integrate" } /\ bgCompute = cur) =>
        /\ bufs[bgCompute].params.count = particleCount
        /\ bufs[bgCompute].params.count = Len(bufs[bgCompute].store)

\* ------------------------------------------------------------------ C5
\* what a force step may change: nothing of the particle store, and of the
\* force slots only the one of its own index
ForceStepWrites ==
    (pc = "force" /\ pc' = "force") =>
        /\ BoundStore' = BoundStore
        /\ Len(BoundForces') >= Len(BoundForces)
        /\ \A j \in 1..Len(BoundForces) :
              j # last'.index + 1 => BoundForces'[j] = BoundForces[j]

\* C5: the force computation never writes the particle store, and the force
\* slot of particle i is written by the step for index i and by no other.
C5_ForceWrites ==
    /\ [](last.kind = "force" =>
             IF last.index < Len(BoundStore)
             THEN last.wrote = last.index
             ELSE last.wrote = -1)
    /\ [][ForceStepWrites]_vars

\* ------------------------------------------------------------------ C6
\* what the integration step for particle i may change: position and
\* velocity of record i
IntegrationStepWrites ==
    (pc = "integrate" /\ pc' = "integrate" /\ last'.index < Len(BoundStore)) =>
        /\ Len(BoundStore') = Len(BoundStore)
        /\ \A j \in 1..Len(BoundStore) :
              /\ j # last'.index + 1 => BoundStore'[j] = BoundStore[j]
              /\ BoundStore'[j].mass = BoundStore[j].mass
        /\ BoundForces' = BoundForces

\* C6: the integration step for particle i writes only the position and the
\* velocity of particle i: no mass, no other particle's record and no force
\* slot changes.
C6_IntegrationWrites == [][IntegrationStepWrites]_vars

\* the integration step of a particle other than the first has moved it
C6_Witness ==
    /\ last.kind = "integrate" /\ last.passed
    /\ last.index >= 1 /\ last.index < Len(BoundStore)
    /\ last.wrote = last.index
    /\ VFin(BoundStore[last.index + 1].pos)
    /\ BoundStore[last.index + 1].vel # ZeroVec

\* ------------------------------------------------------------------ C7
\* C7: every integration step for an index below particleCount divides by a
\* mass above zero, also between a change of the particle count and the end
\* of the re-initialisation that follows it.
C7_MassPositive ==
    (last.kind = "integrate" /\ last.passed /\ last.index < particleCount) =>
        last.mass > 0

\* ------------------------------------------------------------------ C8
PairDivisor(p, other) ==
    IF variant = "gpu" THEN GpuDivisor(p, other) ELSE CpuDivisor(p, other)

PairNormDivisor(p, other) ==
    IF variant = "gpu" THEN GpuNormDivisor(p, other) ELSE CpuNormDivisor(p, other)

PairForce(p, other, g) ==
    IF variant = "gpu" THEN GpuPairForce(p, other, g) ELSE CpuPairForce(p, other, g)

\* C8: for every pair of distinct particles of the store, coincident ones
\* included, the divisors of the pair force are above zero and the pair force
\* is finite.
C8_PairForceFinite ==
    pc = "force" =>
        \A i, j \in 1..Len(BoundStore) :
            (i # j /\ VFin(BoundStore[i].pos) /\ VFin(BoundStore[j].pos)) =>
                /\ PairDivisor(BoundStore[i], BoundStore[j]) > 0
                /\ PairNormDivisor(BoundStore[i], BoundStore[j]) > 0
                /\ VFin(PairForce(BoundStore[i], BoundStore[j], gravityStrength))

\* ------------------------------------------------------------------ C9
InBox(pos) == \A k \in Axes : Fin(pos[k]) /\ Abs(pos[k]) <= BoundarySize

\* C9: at initialisation and after any number of integration steps every
\* position component of every particle lies in [-50, 50].
C9_PositionsInBox ==
    /\ \A j \in 1..Len(particles) : InBox(particles[j].pos)
    /\ \A gen \in DOMAIN bufs :
          \A j \in 1..Len(bufs[gen].store) : InBox(bufs[gen].store[j].pos)

\* ----------------------------------------------------------------- C10
\* velocity and position of the step before the boundary test
SteppedVel(p, f, dt, damp) ==
    [k \in Axes |->
        FMulMilli(FAdd(p.vel[k], FMulMilli(FDiv(f[k], p.mass), dt)), damp)]

SteppedPos(p, f, dt, damp) ==
    [k \in Axes |-> FAdd(p.pos[k], FMulMilli(SteppedVel(p, f, dt, damp)[k], dt))]

\* C10: after integration, an axis whose position component left [-50, 50]
\* has the component set to +50 or -50, by its sign, and its velocity
\* component multiplied by -0.8; an axis that stayed inside keeps position
\* and velocity as integrated.  A component integrated to 51 with velocity
\* +v ends at 50 with velocity -0.8 v.
C10_BoundaryReflection ==
    pc = "render" =>
        LET v2   == SteppedVel(particles[1], forces[1], DeltaTime(timeScale), damping)
            x1   == SteppedPos(particles[1], forces[1], DeltaTime(timeScale), damping)
            post == bufs[0].store[1]
        IN  \A k \in Axes :
               IF x1[k] > BoundarySize
               THEN post.pos[k] = BoundarySize
                    /\ post.vel[k] = TruncDiv(-8 * v2[k], 10)
               ELSE IF x1[k] < -BoundarySize
               THEN post.pos[k] = -BoundarySize
                    /\ post.vel[k] = TruncDiv(-8 * v2[k], 10)
               ELSE post.pos[k] = x1[k] /\ post.vel[k] = v2[k]

\* the x component is integrated to 51 with a positive velocity and ends at
\* 50 with -0.8 times that velocity, while the y axis stays inside
C10_Witness ==
    /\ pc = "render"
    /\ LET v2   == SteppedVel(particles[1], forces[1], DeltaTime(timeScale), damping)
           x1   == SteppedPos(particles[1], forces[1], DeltaTime(timeScale), damping)
           post == bufs[0].store[1]
       IN  /\ x1[1] = 51 * Scale /\ v2[1] > 0
           /\ post.pos[1] = 50 * Scale
           /\ 10 * post.vel[1] = -8 * v2[1]
           /\ Abs(x1[2]) < BoundarySize /\ v2[2] # 0
           /\ post.pos[2] = x1[2] /\ post.vel[2] = v2[2]

\* ----------------------------------------------------------------- C11
\* the record one integration step stores for the record p and the force f:
\* velocity from acceleration, then damping, then position from the damped
\* velocity, then the boundary reflection of each axis
ExpectedRecord(p, f, dt, damp) ==
    LET v2 == SteppedVel(p, f, dt, damp)
        x1 == SteppedPos(p, f, dt, damp)
        out(k) == AbsGreater(x1[k], BoundarySize)
    IN  Particle([k \in Axes |-> IF out(k) THEN Sign(x1[k]) * BoundarySize ELSE x1[k]],
                 p.mass,
                 [k \in Axes |-> IF out(k) THEN FMul(v2[k], -Restitution) ELSE v2[k]])

\* deltaTime and damping as the integration of the frame in flight sees them
StepDt == IF variant = "gpu" THEN bufs[bgCompute].params.dt ELSE DeltaTime(timeScale)

StepDamping == IF variant = "gpu" THEN bufs[bgCompute].params.damping ELSE damping

\* the integration step of particle i, past its guard, stores the record
\* expected from the record before the step and the force slot of i
IntegrationStepOrder ==
    (pc = "integrate" /\ pc' = "integrate" /\ last'.passed
        /\ last'.index < Len(BoundStore)) =>
        BoundStore'[last'.index + 1] =
            ExpectedRecord(BoundStore[last'.index + 1],
                           Load(BoundForces, last'.index, ZeroVec, robust),
                           StepDt, StepDamping)

SofteningSquared == (Scale \div 100) * (Scale \div 100)

\* gravityStrength * m_i * m_j / (|r|^2 + epsilon^2) along unit(r), where
\* r = r_j - r_i; unit of the zero vector is taken as the zero vector
SoftenedPairForce(p, other, g) ==
    LET r   == VSub(other.pos, p.pos)
        mag == FDivSquared(g * p.mass * other.mass, Dot(r) + SofteningSquared)
        len == ISqrt(Dot(r))
    IN  [k \in Axes |-> IF len = 0 THEN 0 ELSE FMulDiv(mag, r[k], len)]

RECURSIVE SoftenedForceSum(_, _, _, _)
SoftenedForceSum(store, i, g, j) ==
    IF j >= Len(store) THEN ZeroVec
    ELSE IF j = i THEN SoftenedForceSum(store, i, g, j + 1)
    ELSE VAdd(SoftenedPairForce(store[i + 1], store[j + 1], g),
              SoftenedForceSum(store, i, g, j + 1))

StepGravity == IF variant = "gpu" THEN bufs[bgCompute].params.g ELSE gravityStrength

\* C12: the force stage yields for particle i the sum over all other
\* particles j of gravityStrength * m_i * m_j / d^2 along unit(r_j - r_i),
\* where the divisor d^2 is |r_j - r_i|^2 + epsilon^2 with epsilon = 0.01;
\* j = i is skipped and every other particle is visited once.
C12_ForceFormula ==
    pc = "force" =>
        /\ \A i, j \in 1..Len(BoundStore) :
              (i # j /\ VFin(BoundStore[i].pos) /\ VFin(BoundStore[j].pos)) =>
                  PairDivisor(BoundStore[i], BoundStore[j]) =
                      Dot(VSub(BoundStore[j].pos, BoundStore[i].pos)) + SofteningSquared
        /\ (last.kind = "force" /\ last.passed /\ last.index < Len(BoundStore)
               /\ \A j \in 1..Len(BoundStore) : VFin(BoundStore[j].pos)) =>
              Load(BoundForces, last.index, ZeroVec, robust) =
                  SoftenedForceSum(BoundStore, last.index, StepGravity, 0)

\* ----------------------------------------------------------------- C13
\* the particle store the simulation object refers to
CurrentStore == IF variant = "gpu" THEN bufs[cur].store ELSE particles

\* distance of a position from the origin, in hundredths
Radius(pos) == IF VFin(pos) THEN ISqrt(Dot(pos)) ELSE NaN

\* n particles, the first at rest at the origin, the others at a distance in
\* [5, 25) from it
FreshShape(store, n) ==
    /\ Len(store) = n
    /\ store[1].pos = ZeroVec /\ store[1].vel = ZeroVec
    /\ \A j \in 2..n :
          /\ Fin(Radius(store[j].pos))
          /\ Radius(store[j].pos) >= 5 * Scale
          /\ Radius(store[j].pos) < 25 * Scale

\* between frames the store changes only by a reset or a resize
StoreReplaced == pc = "idle" /\ pc' = "idle" /\ CurrentStore' # CurrentStore

\* C13: after initialisation, after a reset and after a resize to n the
\* particle store holds the requested number of particles, particle 0 at rest
\* at the origin and every other particle at a distance in [5, 25) from it.
C13_FreshStore ==
    /\ [](frame = 0 /\ resizes = 0 /\ pc = "idle" =>
             FreshShape(CurrentStore, particleCount))
    /\ [][StoreReplaced => FreshShape(CurrentStore', particleCount')]_vars

\* ----------------------------------------------------------------- C14
\* C14: a resize request whose count exceeds the supported maximum is
\* reported to the caller as an error and is not silently cut down to a
\* smaller count.
C14_OverMaxReported ==
    resizes > 0 =>
        /\ (variant = "cpu" /\ app.requested > CpuCap) => app.reported
        /\ particleCount < app.requested => app.reported

\* ----------------------------------------------------------------- C15
Unsupported == ~app.gpu \/ ~app.adapter

\* C15: without navigator.gpu or without an adapter the initialisation
\* fails, the error reaches App.init and is shown to the user, nothing is
\* retried, no frame is ever rendered and no control handler is installed.
C15_UnsupportedHalts ==
    Unsupported =>
        /\ app.stage \in { "start", "adapter", "rejected", "failed" }
        /\ app.attempts <= 1
        /\ ~app.loop /\ ~app.handlers /\ ~app.controls
        /\ frame = 0 /\ pc = "idle" /\ trace = << >>
        /\ app.stage = "failed" <=> app.error
        /\ app.stage = "failed" => ~app.loading
        /\ app.stage # "failed" => ENABLED (AppInit \/ SimInitAdapter \/ AppInitCatch)

\* navigator.gpu exists, no adapter is found, and the error page is shown
C15_Witness ==
    /\ app.gpu /\ ~app.adapter
    /\ app.stage = "failed" /\ app.error /\ app.attempts = 1

\* ----------------------------------------------------------------- C16
\* the parameter values the kernels (GPU) or loops (CPU) of the frame in
\* flight work with
StepParams ==
    IF variant = "gpu"
    THEN [dt |-> bufs[bgCompute].params.dt, g |-> bufs[bgCompute].params.g,
          damping |-> bufs[bgCompute].params.damping]
    ELSE [dt |-> DeltaTime(timeScale), g |-> gravityStrength, damping |-> damping]

\* a step that changes a stored parameter changes nothing else of the
\* simulation
SetterOnly ==
    (gravityStrength' # gravityStrength \/ timeScale' # timeScale
        \/ damping' # damping) =>
        /\ pc = "idle"
        /\ UNCHANGED << particleCount, particles, forces, bufs, cur, bgCompute,
                        bgRender, chains, pc, frame, trace >>
        /\ (gravityStrength' # gravityStrength) => UNCHANGED << timeScale, damping >>
        /\ (timeScale' # timeScale) => UNCHANGED << gravityStrength, damping >>
        /\ (damping' # damping) => UNCHANGED << gravityStrength, timeScale >>

\* C16: the setters change only the stored parameter; the parameters of a
\* frame are written once, before the force stage, from the values at the
\* start of the frame with deltaTime = 0.016 * timeScale, and both kernels of
\* the frame work with those values, so a setter takes effect from the next
\* frame on.
C16_ParamsPerFrame ==
    /\ [](pc \in { "force", "integrate" } =>
             StepParams = [dt |-> DeltaTime(timeScale), g |-> gravityStrength,
                           damping |-> damping])
    /\ [][SetterOnly]_vars
    /\ [][(pc # "idle" /\ pc' # "idle") => StepParams' = StepParams]_vars

\* ----------------------------------------------------------------- C17
\* the controller apart from the cursor of the canvas
CameraFields(c) == [c EXCEPT !.cursor = ""]

\* what each pointer handler would do in the current state, for every event
\* it may receive
DragHandlers ==
    /\ \A x \in Coords, y \in Coords :
          /\ CameraFields(onMouseDown(camera, x, y)) =
                CameraFields([camera EXCEPT !.isMouseDown = TRUE, !.lastMouseX = x,
                                            !.lastMouseY = y])
          /\ onTouchStart(camera, << << x, y >> >>) =
                [camera EXCEPT !.isMouseDown = TRUE, !.lastMouseX = x, !.lastMouseY = y]
          /\ ~camera.isMouseDown =>
                /\ onMouseMove(camera, x, y) = camera
                /\ onTouchMove(camera, << << x, y >> >>) = camera
          /\ camera.isMouseDown =>
                /\ onMouseMove(camera, x, y).lastMouseX = x
                /\ onMouseMove(camera, x, y).lastMouseY = y
                /\ onMouseMove(camera, x, y).rotMatrix =
                      Dragged(camera.rotMatrix, x - camera.lastMouseX,
                              y - camera.lastMouseY)
                /\ CameraFields(onTouchMove(camera, << << x, y >> >>)) =
                      CameraFields(onMouseMove(camera, x, y))
                /\ (x = camera.lastMouseX /\ y = camera.lastMouseY) =>
                      onMouseMove(camera, x, y) = camera
    /\ CameraFields(onMouseUp(camera)) = CameraFields([camera EXCEPT !.isMouseDown = FALSE])
    /\ onTouchEnd(camera) = [camera EXCEPT !.isMouseDown = FALSE]

\* a step that changes the orientation is a move received while dragging,
\* measured from the recorded coordinate (reset() apart, which no handler of
\* the page calls)
OrientationStep ==
    camera'.rotMatrix # camera.rotMatrix =>
        \/ camera' = reset(camera)
        \/ /\ camera.isMouseDown /\ camera'.isMouseDown
           /\ input'.moves = input.moves + 1
           /\ \E x \in Coords, y \in Coords :
                 /\ camera'.lastMouseX = x /\ camera'.lastMouseY = y
                 /\ camera'.rotMatrix =
                       Dragged(camera.rotMatrix, x - camera.lastMouseX,
                               y - camera.lastMouseY)
           /\ camera'.distance = camera.distance
           /\ camera'.targetDistance = camera.targetDistance

\* C17: the orientation changes only by a move event received between a
\* drag start and the following drag end; a drag start only records the
\* coordinate and sets the flag, a move while not dragging changes nothing,
\* a move while dragging measures its delta from the recorded coordinate and
\* records the new one, and a drag end only clears the flag.
C17_DragOnly == []DragHandlers /\ [][OrientationStep]_vars

\* a drag has rotated the camera and has ended
C17_Witness ==
    /\ ~camera.isMouseDown /\ camera.rotMatrix # Identity
    /\ input.moves = 1 /\ camera.lastMouseX = 100

\* ----------------------------------------------------------------- C18
ClampDistance(d) ==
    IF d > MaxDistance THEN MaxDistance ELSE IF d < MinDistance THEN MinDistance ELSE d

\* targetDistance times 1 + zoomSpeed or 1 - zoomSpeed, clamped
ZoomedOut(t) == ClampDistance(RoundDiv(t * (ZoomDen + 1), ZoomDen))

ZoomedIn(t) == ClampDistance(RoundDiv(t * (ZoomDen - 1), ZoomDen))

\* what a wheel event would do in the current state
WheelZooms ==
    \A deltaY \in WheelDeltas :
        /\ onWheel(camera, deltaY).targetDistance =
              IF deltaY > 0 THEN ZoomedOut(camera.targetDistance)
              ELSE ZoomedIn(camera.targetDistance)
        /\ onWheel(camera, deltaY) =
              [camera EXCEPT !.targetDistance = onWheel(camera, deltaY).targetDistance]

\* a step that changes targetDistance (reset() apart) is a run of wheel
\* events and leaves distance, orientation and camera position as they were
ZoomStep ==
    (camera'.targetDistance # camera.targetDistance /\ camera' # reset(camera)) =>
        /\ input'.zooms = input.zooms + 1
        /\ camera' = [camera EXCEPT !.targetDistance = camera'.targetDistance]

\* what a two-finger touch move would do if it were a zoom event
PinchZooms ==
    \A touches \in TouchLists :
        Len(touches) = 2 =>
            onTouchMove(camera, touches).targetDistance
                \in { ZoomedOut(camera.targetDistance), ZoomedIn(camera.targetDistance) }

\* no touch event changes targetDistance or distance
TouchKeepsDistance ==
    /\ \A touches \in TouchLists :
          /\ onTouchStart(camera, touches).targetDistance = camera.targetDistance
          /\ onTouchStart(camera, touches).distance = camera.distance
          /\ onTouchMove(camera, touches).targetDistance = camera.targetDistance
          /\ onTouchMove(camera, touches).distance = camera.distance
          /\ Len(touches) = 2 =>
                /\ onTouchStart(camera, touches) = camera
                /\ onTouchMove(camera, touches) = camera
    /\ onTouchEnd(camera).targetDistance = camera.targetDistance
    /\ onTouchEnd(camera).distance = camera.distance

InRange(d) == MinDistance <= d /\ d <= MaxDistance

\* C19: after any sequence of wheel events, drag events, update() calls and
\* reset() calls, targetDistance and distance both lie in [10, 500].
C19_DistanceRange == InRange(camera.targetDistance) /\ InRange(camera.distance)

\* after a drag, a scroll to the lower clamp and the updates that follow, the
\* distance has come down to within one smoothing step of the clamp
C19_Witness ==
    /\ camera.rotMatrix # Identity
    /\ camera.targetDistance = MinDistance
    /\ camera.distance < MinDistance + SmoothDen
    /\ input.zooms = 1

\* ----------------------------------------------------------------- C20
Gap(c) == c.targetDistance - c.distance

\* update() in the current state moves the distance by a tenth of the gap,
\* rounded, towards the target and not past it, and touches nothing else
SmoothStep ==
    LET u == update(camera)
    IN  /\ Abs(SmoothDen * (u.distance - camera.distance) - Gap(camera))
              <= SmoothDen \div 2
        /\ Gap(camera) >= 0 => (0 <= Gap(u) /\ Gap(u) <= Gap(camera))
        /\ Gap(camera) <= 0 => (Gap(camera) <= Gap(u) /\ Gap(u) <= 0)
        /\ u.targetDistance = camera.targetDistance
        /\ u.rotMatrix = camera.rotMatrix
        /\ u.isMouseDown = camera.isMouseDown

\* a step that changes the distance (reset() apart) is an update() call
DistanceStep ==
    (camera'.distance # camera.distance /\ camera' # reset(camera)) =>
        camera' = update(camera)

\* the distance has come as close to the target as one unit of resolution
Arrived == Abs(Gap(camera)) <= 1

\* the distance has come so close that a tenth of the gap rounds to nothing
Settled == Abs(Gap(camera)) <= SmoothDen \div 2

\* update() leaves the distance where it is
Stalled == update(camera).distance = camera.distance

\* C20 as stated: with no further zoom event every update() moves distance
\* towards targetDistance by the fraction 0.1 of the gap without overshooting
\* or moving away, and distance eventually comes within any positive
\* tolerance of targetDistance and stays there.
C20_Converges == []SmoothStep /\ [][DistanceStep]_vars /\ <>[]Arrived

\* C20, amended: every update() moves distance towards targetDistance by the
\* fraction 0.1 of the gap, rounded to the resolution of the arithmetic,
\* without overshooting or moving away; once the zoom events have ended the
\* gap eventually is at most half of 1 / smoothing units of resolution, where
\* a tenth of it rounds to nothing, and from then on distance stays where it
\* is, in general short of targetDistance.
C20_ConvergesToResolution ==
    /\ []SmoothStep /\ [][DistanceStep]_vars
    /\ <>[]Settled /\ <>[]Stalled

\* a scroll has ended and the distance has settled short of the target
C20_Witness ==
    /\ input.zooms = 1 /\ Settled /\ ~Arrived
    /\ camera.targetDistance # StartDistance

\* ----------------------------------------------------------------- C21
\* column k of a matrix: 1 the right axis, 2 the up axis, 3 the forward axis
Col(rot, k) == << rot[k], rot[k + 3], rot[k + 6] >>

\* the inner product, in units of RotScale
Inner(u, v) == RMul(u[1], v[1]) + RMul(u[2], v[2]) + RMul(u[3], v[3])

\* the determinant, in units of RotScale
Det(rot) ==
    RMul(rot[1], RMul(rot[5], rot[9]) - RMul(rot[6], rot[8]))
      - RMul(rot[2], RMul(rot[4], rot[9]) - RMul(rot[6], rot[7]))
      + RMul(rot[3], RMul(rot[4], rot[8]) - RMul(rot[5], rot[7]))

\* the deviation allowed in a length, an inner product or the determinant: a
\* thousandth, ten units of the matrix's resolution
RotSlack == RotScale \div 1000

Near(x, y) == Abs(x - y) <= RotSlack

ProperRotation(rot) ==
    /\ \A k \in 1..3 : Near(Inner(Col(rot, k), Col(rot, k)), RotScale)
    /\ Near(Inner(Col(rot, 1), Col(rot, 2)), 0)
    /\ Near(Inner(Col(rot, 1), Col(rot, 3)), 0)
    /\ Near(Inner(Col(rot, 2), Col(rot, 3)), 0)
    /\ Near(Det(rot), RotScale)

\* C21: after every drag move, from the identity or from a reset, the
\* orientation is a proper rotation: columns of unit length, mutually
\* perpendicular, determinant +1 (up to the rounding of the arithmetic).
C21_ProperRotation ==
    /\ ProperRotation(camera.rotMatrix)
    /\ \A x \in Coords, y \in Coords :
          ProperRotation(onMouseMove(camera, x, y).rotMatrix)

\* ----------------------------------------------------------------- C22
\* entry (i, j) of a matrix kept row by row
At(m, i, j) == m[3 * (i - 1) + j]

\* the cross-product matrix of an axis, entry (i, j)
Cross(a, i, j) ==
    CASE i = 1 /\ j = 2 -> -a[3]
      [] i = 1 /\ j = 3 -> a[2]
      [] i = 2 /\ j = 1 -> a[3]
      [] i = 2 /\ j = 3 -> -a[1]
      [] i = 3 /\ j = 1 -> -a[2]
      [] i = 3 /\ j = 2 -> a[1]
      [] OTHER -> 0

\* Rodrigues' rotation matrix R(axis, angle) = cos I + (1 - cos) a a^T + sin [a]x
Rodrigues(a, angle) ==
    [n \in 1..9 |->
        LET i == ((n - 1) \div 3) + 1
            j == ((n - 1) % 3) + 1
        IN  (IF i = j THEN Cos(angle) ELSE 0)
              + RMul(RMul(a[i], a[j]), RotScale - Cos(angle))
              + RMul(Cross(a, i, j), Sin(angle))]

\* the matrix product a b
Product(a, b) ==
    [n \in 1..9 |->
        LET i == ((n - 1) \div 3) + 1
            j == ((n - 1) % 3) + 1
        IN  RMul(At(a, i, 1), At(b, 1, j)) + RMul(At(a, i, 2), At(b, 2, j))
              + RMul(At(a, i, 3), At(b, 3, j))]

\* the orientation after a move by (dx, dy): yaw around the up column of the
\* orientation before the move, then pitch around the right column of the
\* yawed orientation; rotationSpeed 0.01 makes the angle -delta hundredths
YawPitch(rot, dx, dy) ==
    LET yawed == Product(Rodrigues(Col(rot, 2), -dx), rot)
    IN  Product(Rodrigues(Col(yawed, 1), -dy), yawed)

\* C22: a drag move by (dx, dy) replaces the orientation by
\* R(up, -dx * 0.01) * orientation and then by R(right, -dy * 0.01) * that,
\* with up taken before the move and right after the yaw; the camera position
\* is then the forward column times the distance; a drag by (100, 0) from the
\* identity moves the camera position away from (0, 0, 100).
C22_DragComposition ==
    \A x \in Coords, y \in Coords :
        camera.isMouseDown =>
            LET moved == onMouseMove(camera, x, y)
                dx == x - camera.lastMouseX
                dy == y - camera.lastMouseY
            IN  /\ moved.rotMatrix = YawPitch(camera.rotMatrix, dx, dy)
                /\ moved.position =
                      << RMul(Col(moved.rotMatrix, 3)[1], camera.distance),
                         RMul(Col(moved.rotMatrix, 3)[2], camera.distance),
                         RMul(Col(moved.rotMatrix, 3)[3], camera.distance) >>
                /\ moved.up = Col(moved.rotMatrix, 2)
                /\ (camera.rotMatrix = Identity /\ dx = 100 /\ dy = 0) =>
                      moved.position # << 0, 0, camera.distance >>

\* the camera after a drag by (100, 0) from the identity
C22_Witness ==
    /\ camera.isMouseDown /\ input.moves = 1
    /\ camera.rotMatrix = YawPitch(Identity, 100, 0)
    /\ camera.position # << 0, 0, camera.distance >>
    /\ camera.position[1] # 0

\* ----------------------------------------------------------------- C23
\* C23: from any reachable camera state reset() sets the orientation to the
\* identity and distance = targetDistance = 100, the camera position becomes
\* (0, 0, 100) and the up vector (0, 1, 0), as in a freshly constructed
\* controller; reset() applied twice gives what reset() applied once gives.
C23_Reset ==
    LET r == reset(camera)
    IN  /\ r.rotMatrix = Identity
        /\ r.distance = 100 * Scale /\ r.targetDistance = 100 * Scale
        /\ r.position = << 0, 0, 100 * Scale >>
        /\ r.up = << 0, RotScale, 0 >>
        /\ r.rotMatrix = NewCameraController.rotMatrix
        /\ r.distance = NewCameraController.distance
        /\ r.targetDistance = NewCameraController.targetDistance
        /\ r.position = NewCameraController.position
        /\ r.up = NewCameraController.up
        /\ reset(r) = r

\* reset() has been called after a drag and a scroll
C23_Witness ==
    /\ input.moves = 1 /\ input.zooms = 1
    /\ camera.lastMouseX = 100
    /\ camera = reset(camera)

\* ----------------------------------------------------------------- C24
\* the camera position and up vector belong to the orientation and distance
\* of the same controller state
ViewCoherent ==
    /\ camera.position = << RMul(camera.rotMatrix[3], camera.distance),
                            RMul(camera.rotMatrix[6], camera.distance),
                            RMul(camera.rotMatrix[9], camera.distance) >>
    /\ camera.up = Col(camera.rotMatrix, 2)

\* the words of the current uniform buffer, once written, all come from one
\* camera position and up vector
PackedCoherent ==
    LET u == bufs[cur].uniforms
    IN  u[1] # ZeroWord =>
           /\ \A k \in 1..16 : u[k].of = u[1].of
           /\ \A i \in 1..3 : u[16 + i].of = << u[1].of[i] >>

\* a frame packs the camera that update() leaves of the controller state the
\* completed handlers have produced
FramePacks ==
    (pc = "idle" /\ pc' = "force") =>
        /\ camera' = update(camera)
        /\ \A k \in 1..16 : bufs'[cur].uniforms[k].of = camera'.position \o camera'.up
        /\ \A i \in 1..3 : bufs'[cur].uniforms[16 + i].of = << camera'.position[i] >>

\* a step that turns the orientation applies the yaw and the pitch of one
\* move event together and is not a step of a frame
WholeMove ==
    camera'.rotMatrix # camera.rotMatrix =>
        /\ pc' = pc /\ bufs' = bufs
        /\ \E x \in Coords, y \in Coords :
              camera'.rotMatrix = YawPitch(camera.rotMatrix, x - camera.lastMouseX,
                                           y - camera.lastMouseY)

\* C24: gesture events arrive at any point between frames, and the camera
\* position and up vector a frame packs come from one camera state, the
\* result of completed gesture handlers followed by the frame's update(): no
\* frame sees a yaw without its pitch, or a position of another orientation
\* than the up vector.
C24_CoherentView ==
    /\ [](ViewCoherent /\ PackedCoherent)
    /\ [][FramePacks]_vars
    /\ [][WholeMove]_vars

\* a frame in flight has packed a camera that a drag turned and a scroll is
\* moving, while the next gesture has already begun
C24_Witness ==
    /\ pc = "integrate" /\ frame = 1
    /\ input.moves = 1 /\ input.zooms = 1
    /\ camera.isMouseDown
    /\ bufs[cur].uniforms[1].of = camera.position \o camera.up
    /\ camera.up # << 0, RotScale, 0 >>
    /\ camera.distance # camera.targetDistance

\* ------------------------------------------------------------------ C25
\* two records that are each other's image under reflection in the origin
Mirrored(a, b) ==
    /\ a.mass = b.mass
    /\ VFin(a.pos) /\ VFin(a.vel)
    /\ b.pos = Neg(a.pos)
    /\ b.vel = Neg(a.vel)

\* the two particles are on the x axis, the first on the negative side
OnAxis(store) == store[1].pos[1] < 0 /\ store[2].pos[1] > 0

\* the attraction over one frame, gravityStrength * mass * 0.016 / (2x)^2,
\* is at least twice the resolution of a velocity (one hundredth)
Resolved(store) ==
    16 * gravityStrength * store[1].mass >= 80 * store[2].pos[1] * store[2].pos[1]

\* C25: a two-particle configuration with equal masses and positions and
\* velocities mirrored about the origin is still mirrored after every frame;
\* the force array the integration reads holds one force per particle, each
\* the exact negative of the other; and after the first frame the two
\* velocities are equal and opposite along x and point toward each other.
C25_MirrorSymmetry ==
    /\ pc = "idle" => Mirrored(CurrentStore[1], CurrentStore[2])
    /\ pc = "integrate" /\ done = {} /\ loop = 0 =>
          /\ Len(BoundForces) = 2
          /\ BoundForces[2] = Neg(BoundForces[1])
    /\ pc = "idle" /\ frame = 1 =>
          /\ CurrentStore[1].vel[1] = 0 - CurrentStore[2].vel[1]
          /\ CurrentStore[1].vel[1] >= 0
          /\ Resolved(CurrentStore) => CurrentStore[1].vel[1] > 0

\* the same property of the CPU variant alone
C25_MirrorSymmetryCpu == variant = "cpu" => C25_MirrorSymmetry

\* ------------------------------------------------------------------ C26
\* the buffers after the force invocations 0 .. k-1 have run one after the
\* other in ascending order
RECURSIVE ForcesInOrder(_, _)
ForcesInOrder(b, k) ==
    IF k = 0 THEN b.forces
    ELSE LET before == [b EXCEPT !.forces = ForcesInOrder(b, k - 1)]
         IN  GpuComputeForces(before, k - 1)

\* the invocations of a dispatch that the model follows
Followed == Cardinality({ i \in Tracked : i < Dispatched(particleCount) })

\* what invocation j reads from, or last wrote to, its force slot
ForceSeen(bs, j) == Load(bs[bgCompute].forces, j, ZeroVec, robust)

\* what invocation j reads from its particle slot
ParticleSeen(bs, j) == Load(bs[bgCompute].store, j, ZeroParticle, robust)

\* an invocation of either kernel leaves alone every location that another
\* invocation of the same dispatch reads or writes
NoInterference ==
    /\ pc = "force" /\ pc' = "force" =>
          \A j \in Tracked \ { last'.index } :
             ForceSeen(bufs', j) = ForceSeen(bufs, j)
    /\ pc = "integrate" /\ pc' = "integrate" =>
          \A j \in Tracked \ { last'.index } :
             ParticleSeen(bufs', j) = ParticleSeen(bufs, j)

\* the force array a completed force pass leaves is the one the ascending
\* order leaves
ForcesAsInOrder ==
    variant = "gpu" /\ pc = "integrate" /\ done = {} =>
       bufs[bgCompute].forces = ForcesInOrder(bufs[bgCompute], Followed)

\* C26: the Particle Store after a frame does not depend on the order or the
\* interleaving of the invocations inside the force dispatch and inside the
\* integration dispatch: every order leaves the force array of the ascending
\* order, and no invocation touches a location another invocation of the same
\* dispatch reads or writes.
C26_OrderIndependent == []ForcesAsInOrder /\ [][NoInterference]_vars

\* the same property where out-of-bounds accesses are discarded
C26_OrderIndependentDiscarding ==
    [](robust = "zero" => ForcesAsInOrder)
       /\ [][robust = "zero" => NoInterference]_vars

\* ------------------------------------------------------------------ C27
\* an invocation runs once per dispatch, and a dispatch ends only when the
\* invocation of every index below particleCount has run
EachIndexOnce ==
    /\ (pc \in { "force", "integrate" } /\ pc' = pc) =>
          /\ last'.index \notin done
          /\ last'.index < Dispatched(particleCount)
          /\ done' = done \cup { last'.index }
    /\ (pc \in { "force", "integrate" } /\ pc' # pc) =>
          \A i \in 0..(particleCount - 1) : i \in done

\* an invocation whose index is at or beyond particleCount has returned at
\* the guard, before any access to a buffer
BeyondReturns ==
    (variant = "gpu" /\ last.kind \in { "force", "integrate" }
        /\ last.index >= particleCount) =>
       /\ ~last.passed
       /\ last.wrote = -1

\* an invocation at or beyond particleCount leaves the buffers as they were
BeyondKeepsBuffers ==
    (variant = "gpu" /\ pc \in { "force", "integrate" } /\ pc' = pc
        /\ last'.index >= particleCount) =>
       /\ bufs'[bgCompute].store = bufs[bgCompute].store
       /\ bufs'[bgCompute].forces = bufs[bgCompute].forces

\* C27: with ceil(particleCount / 64) workgroups of 64 invocations per
\* kernel, every index below particleCount is processed by exactly one
\* invocation of the force kernel and one of the integration kernel in a
\* frame, and every invocation with an index at or beyond particleCount
\* returns without reading or writing a buffer.
C27_DispatchCoverage ==
    /\ [][EachIndexOnce]_vars
    /\ []BeyondReturns
    /\ [][BeyondKeepsBuffers]_vars

\* the first half of C27 alone
C27_EachIndexOnce == [][EachIndexOnce]_vars

\* ------------------------------------------------------------------ C28
\* C28: the force buffer created for particleCount particles holds, at the
\* stride of array<vec3<f32>>, one slot of its own for every particle index,
\* so the force the integration kernel reads for index i is the force the
\* force kernel computed for index i, the last index included.
C28_ForceSlotPerParticle ==
    variant = "gpu" =>
       /\ \A gen \in 0..MaxResizes :
             Len(bufs[gen].forces) = Len(bufs[gen].store)
       /\ (pc = "integrate" /\ done = {}) =>
             \A i \in 0..(Len(bufs[bgCompute].store) - 1) :
                /\ i < Len(bufs[bgCompute].forces)
                /\ ForceSeen(bufs, i) = ComputedForce(i)

\* ------------------------------------------------------------------ C29
\* the uniform buffer of a generation has been written by updateUniforms
UniformsWritten(gen) ==
    bufs[gen].uniforms # << >> /\ bufs[gen].uniforms[1] # ZeroWord

\* the buffer has the size of the shader's structure and every word of it
\* holds the member, and the component of it, that the shader reads there
UniformsMatch(gen) ==
    /\ 4 * Len(bufs[gen].uniforms) = UniformsSize
    /\ \A w \in 0..(UniformsSize \div 4 - 1) :
          /\ w < Len(bufs[gen].uniforms)
          /\ bufs[gen].uniforms[w + 1].field = ShaderWord(w).field
          /\ bufs[gen].uniforms[w + 1].k = ShaderWord(w).k

\* C29: in both variants the uniform record that updateUniforms writes has
\* the fields, the order, the offsets and the total size of the Uniforms
\* structure that particle-vertex-quad.wgsl reads.
C29_UniformLayout ==
    \A gen \in 0..MaxResizes : UniformsWritten(gen) => UniformsMatch(gen)

\* the same property of the CPU variant alone
C29_UniformLayoutCpu == variant = "cpu" => C29_UniformLayout

\* ------------------------------------------------------------------ C30
\* the two variants give the pair (p, other) the same divisor, the same
\* length for the direction vector and the same force
SamePairForce(p, other) ==
    /\ GpuDivisor(p, other) = CpuDivisor(p, other)
    /\ GpuNormDivisor(p, other) = CpuNormDivisor(p, other)
    /\ GpuPairForce(p, other, gravityStrength)
          = CpuPairForce(p, other, gravityStrength)

\* given the same force, the two variants store back the same record
SameIntegration(store) ==
    \A i \in 1..Len(store) :
       LET f == CpuTotalForce(store, i - 1, Len(store), gravityStrength)
       IN  GpuIntegrate(store[i], f, DeltaTime(timeScale), damping)
              = CpuIntegrate(store[i], f, DeltaTime(timeScale), damping)

\* applied to the same store and parameters, the force kernel followed by
\* the integration kernel and the two loops of updatePhysics give every
\* particle the same force and the same record after the step
SameStep(store) ==
    /\ \A i, j \in 1..Len(store) :
          (i # j /\ VFin(store[i].pos) /\ VFin(store[j].pos)) =>
             SamePairForce(store[i], store[j])
    /\ \A i \in 1..Len(store) :
          LET fGpu == GpuTotalForce(store, i - 1, Len(store), gravityStrength, robust)
              fCpu == CpuTotalForce(store, i - 1, Len(store), gravityStrength)
          IN  /\ fGpu = fCpu
              /\ GpuIntegrate(store[i], fGpu, DeltaTime(timeScale), damping)
                    = CpuIntegrate(store[i], fCpu, DeltaTime(timeScale), damping)

\* C30: the CPU variant's updatePhysics and the GPU variant's two kernels are
\* the same transformation of the Particle Store: from the same particles
\* and parameters both compute the same force on every particle (the same
\* divisor and the same direction vector for every pair) and the same
\* positions and velocities after the step.
C30_SameTransformation == pc = "idle" => SameStep(CurrentStore)

\* the integration half of C30 alone
C30_SameIntegration == pc = "idle" => SameIntegration(CurrentStore)


====
